---- MODULE Spec2Model ----
(***************************************************************************)
(* Layout reconstruction engine of notebooklm2ppt/utils/ppt_creater.py.    *)
(*                                                                         *)
(* Three specifications share the definitions below:                      *)
(*   SpecWide : make_data_wide_screen applied (once, then again) to a      *)
(*              bounded layout/OCR record;                                 *)
(*   Spec     : the pipeline of create_ppt_from_paddle_json               *)
(*              (wide screen -> canvas -> resize -> page loop -> save);    *)
(*   SpecPage : process_slide_background on one page, pixel by pixel.      *)
(*                                                                         *)
(* Numbers: layout coordinates are integers.  A Python float that is a     *)
(* quotient of integers is kept as an exact rational <<num, den>>, den > 0.*)
(***************************************************************************)
EXTENDS Integers, Sequences, FiniteSets, TLC

VARIABLES
    pc,          \* position of the running function
    json_data,   \* the record as read from the JSON file (the caller's object)
    data,        \* the record the pipeline currently works on
    png_files,   \* one entry per raster file name: TRUE iff the file exists
    ppt_dims,    \* <<ppt_width, ppt_height>> (rationals), <<>> before setup
    page_idx,    \* loop variable of the page loop (0-based)
    slides,      \* presentation.Slides, one record per appended slide
    final_ppt,   \* TRUE once presentation.SaveToFile has run
    error,       \* "" or the exception that ended the run
    bg           \* frame of process_slide_background (SpecPage)

vars == <<pc, json_data, data, png_files, ppt_dims, page_idx, slides, final_ppt, error, bg>>

(***************************************************************************)
(* Bounds of the model.                                                    *)
(***************************************************************************)
MaxItems == 2     \* blocks plus OCR lines of a SpecWide document
MaxPages == 2     \* pages of a pipeline document
MaxBlocks == 2    \* blocks of one page

(***************************************************************************)
(* Arithmetic helpers.                                                     *)
(***************************************************************************)
Max(a, b) == IF a >= b THEN a ELSE b
Min(a, b) == IF a <= b THEN a ELSE b
Abs(a) == IF a >= 0 THEN a ELSE -a

\* int(n/d): Python truncates towards zero.
PyInt(n, d) == IF n >= 0 THEN n \div d ELSE -((-n) \div d)

\* int(np.ceil(n/d))
PyCeil(n, d) == -((-n) \div d)

\* round(pdf_h * 16 / 9); 16h/9 is never halfway between two integers.
Round16by9(pdf_h) == (32 * pdf_h + 9) \div 18

SeqMap(Op(_), s) == [i \in 1..Len(s) |-> Op(s[i])]

\* All sequences over S of length at most n.
SeqsUpTo(S, n) == UNION {[1..k -> S] : k \in 0..n}

(***************************************************************************)
(* The layout / OCR record.                                               *)
(*   block    : [block_label, block_content, block_bbox]; an absent bbox   *)
(*              is <<>> (falsy in `if bbox:`)                             *)
(*   page     : prunedResult of a layoutParsingResults entry              *)
(*   ocr page : prunedResult of an ocrResults entry                       *)
(***************************************************************************)
Block(label, content, bbox) ==
    [block_label |-> label, block_content |-> content, block_bbox |-> bbox]

PageLayout(w, h, blocks) == [width |-> w, height |-> h, parsing_res_list |-> blocks]

OcrPage(boxes) == [rec_boxes |-> boxes]

\* dataInfo as PaddleOCR writes it: the document size and one size per page.
DataInfo(layout) ==
    IF Len(layout) = 0 THEN [width |-> 0, height |-> 0, pages |-> <<>>]
    ELSE [width |-> layout[1].width, height |-> layout[1].height,
          pages |-> [i \in 1..Len(layout) |->
                        [width |-> layout[i].width, height |-> layout[i].height]]]

Document(layout, ocr) ==
    [layoutParsingResults |-> layout, ocrResults |-> ocr, dataInfo |-> DataInfo(layout)]

get_pdf_size_from_data(d) ==
    <<d.layoutParsingResults[1].width, d.layoutParsingResults[1].height>>

(***************************************************************************)
(* update_data_size(data, width, height=None).  height is <<>> for None    *)
(* and <<h>> otherwise; width and height are integers here, so int() is    *)
(* the identity on them.                                                   *)
(***************************************************************************)
\* Mutant of update_data_size: the new width is not written to the pages.
update_data_size_keep_width(d, width, height) ==
    [d EXCEPT
        !.layoutParsingResults = [i \in 1..Len(@) |->
            IF height # <<>> THEN [@[i] EXCEPT !.height = height[1]] ELSE @[i]]]

update_data_size(d, width, height) ==
    [d EXCEPT
        !.layoutParsingResults = [i \in 1..Len(@) |->
            IF height # <<>>
            THEN [@[i] EXCEPT !.width = width, !.height = height[1]]
            ELSE [@[i] EXCEPT !.width = width]],
        !.dataInfo = [width |-> width,
                      height |-> IF height # <<>> THEN height[1] ELSE @.height,
                      pages |-> [i \in 1..Len(@.pages) |->
                          [width |-> width,
                           height |-> IF height # <<>> THEN height[1]
                                      ELSE @.pages[i].height]]]]

(***************************************************************************)
(* make_data_wide_screen(data): pad or crop every page to the 16:9 width   *)
(* of the first page.                                                      *)
(***************************************************************************)
\* Mutant of PadBlock: only the left edge is moved.
PadBlockLeftOnly(item, offset_x) ==
    LET bbox == item.block_bbox IN
    IF bbox # <<>>
    THEN [item EXCEPT !.block_bbox = <<bbox[1] + offset_x, bbox[2], bbox[3], bbox[4]>>]
    ELSE item

\* lines 597-602: the block with its bbox moved right by offset_x
PadBlock(item, offset_x) ==
    LET bbox == item.block_bbox IN
    IF bbox # <<>>
    THEN [item EXCEPT !.block_bbox =
             <<bbox[1] + offset_x, bbox[2], bbox[3] + offset_x, bbox[4]>>]
    ELSE item

\* lines 610-614: bbox[0] += offset_x; bbox[2] += offset_x, trailing fields kept
PadOcrBox(bbox, offset_x) ==
    IF bbox # <<>> /\ Len(bbox) >= 4
    THEN [bbox EXCEPT ![1] = @ + offset_x, ![3] = @ + offset_x]
    ELSE bbox

\* Mutant of InCropRange: the window's edges counted as inside.
InCropRangeClosed(x1, x2, left, right) == x2 >= left /\ x1 <= right

\* line 640 (and 660): the box overlaps the kept window
InCropRange(x1, x2, left, right) == x2 > left /\ x1 < right

\* lines 635-645: is the block appended to filtered_list
CropKeepsBlock(item, left, right) ==
    LET bbox == item.block_bbox IN
    /\ bbox # <<>>
    /\ InCropRange(bbox[1], bbox[3], left, right)

\* Mutant of CropBlock: the box is clipped but not moved left.
CropBlockUnshifted(item, left, target_width) ==
    LET bbox == item.block_bbox IN
    [item EXCEPT !.block_bbox =
        <<Max(0, bbox[1]), bbox[2], Min(target_width, bbox[3]), bbox[4]>>]

\* lines 642-644
CropBlock(item, left, target_width) ==
    LET bbox == item.block_bbox IN
    [item EXCEPT !.block_bbox =
        <<Max(0, bbox[1] - left), bbox[2], Min(target_width, bbox[3] - left), bbox[4]>>]

\* lines 656-664
CropKeepsOcrBox(bbox, left, right) ==
    /\ bbox # <<>>
    /\ Len(bbox) >= 4
    /\ InCropRange(bbox[1], bbox[3], left, right)

CropOcrBox(bbox, left, target_width) ==
    [bbox EXCEPT ![1] = Max(0, bbox[1] - left),
                 ![3] = Min(target_width, bbox[3] - left)]

\* lines 585-614
PadData(d, pdf_w, target_width) ==
    LET offset_x == (target_width - pdf_w) \div 2
        sized == update_data_size(d, target_width, <<>>)
        PadB(item) == PadBlock(item, offset_x)
        PadO(bbox) == PadOcrBox(bbox, offset_x)
    IN  [sized EXCEPT
            !.layoutParsingResults = [i \in 1..Len(@) |->
                [@[i] EXCEPT !.parsing_res_list = SeqMap(PadB, @)]],
            !.ocrResults = [i \in 1..Len(@) |->
                [@[i] EXCEPT !.rec_boxes = SeqMap(PadO, @)]]]

\* lines 616-666
CropData(d, pdf_w, target_width) ==
    LET left == (pdf_w - target_width) \div 2
        right == left + target_width
        sized == update_data_size(d, target_width, <<>>)
        KeepB(item) == CropKeepsBlock(item, left, right)
        CropB(item) == CropBlock(item, left, target_width)
        KeepO(bbox) == CropKeepsOcrBox(bbox, left, right)
        CropO(bbox) == CropOcrBox(bbox, left, target_width)
    IN  [sized EXCEPT
            !.layoutParsingResults = [i \in 1..Len(@) |->
                [@[i] EXCEPT !.width = target_width,
                             !.parsing_res_list = SeqMap(CropB, SelectSeq(@, KeepB))]],
            !.ocrResults = [i \in 1..Len(@) |->
                [@[i] EXCEPT !.rec_boxes = SeqMap(CropO, SelectSeq(@, KeepO))]]]

make_data_wide_screen(d) ==
    IF Len(d.layoutParsingResults) = 0 THEN d
    ELSE LET pdf_w == d.layoutParsingResults[1].width
             pdf_h == d.layoutParsingResults[1].height
             target_width == Round16by9(pdf_h)
         IN  IF target_width = pdf_w THEN d
             ELSE IF target_width > pdf_w THEN PadData(d, pdf_w, target_width)
             ELSE CropData(d, pdf_w, target_width)

(***************************************************************************)
(* Rationals <<num, den>> with den > 0.                                    *)
(***************************************************************************)
Rat(n) == <<n, 1>>

RatLess(a, b) == a[1] * b[2] < b[1] * a[2]

RatMin(a, b) == IF RatLess(b, a) THEN b ELSE a

RatMax(a, b) == IF RatLess(a, b) THEN b ELSE a

RatAdd(a, n) == <<a[1] + n * a[2], a[2]>>

\* abs(a - b) < 1e-2
RatWithinTolerance(a, b) == 100 * Abs(a[1] * b[2] - b[1] * a[2]) < a[2] * b[2]

(***************************************************************************)
(* Text: a str is a sequence of one-character strings.                     *)
(***************************************************************************)
UpperLetters ==
    <<"A", "B", "C", "D", "E", "F", "G", "H", "I", "J", "K", "L", "M",
      "N", "O", "P", "Q", "R", "S", "T", "U", "V", "W", "X", "Y", "Z">>

LowerLetters ==
    <<"a", "b", "c", "d", "e", "f", "g", "h", "i", "j", "k", "l", "m",
      "n", "o", "p", "q", "r", "s", "t", "u", "v", "w", "x", "y", "z">>

Whitespace == {" ", "\t", "\n"}

\* Mutant of StrLower: the text is compared as written.
StrLowerMissing(str) == str

\* str.lower()
StrLower(str) ==
    [i \in 1..Len(str) |->
        IF \E k \in 1..26 : UpperLetters[k] = str[i]
        THEN LowerLetters[CHOOSE k \in 1..26 : UpperLetters[k] = str[i]]
        ELSE str[i]]

RECURSIVE StrLStrip(_)
StrLStrip(str) ==
    IF str # <<>> /\ Head(str) \in Whitespace THEN StrLStrip(Tail(str)) ELSE str

RECURSIVE StrRStrip(_)
StrRStrip(str) ==
    IF str # <<>> /\ str[Len(str)] \in Whitespace
    THEN StrRStrip(SubSeq(str, 1, Len(str) - 1))
    ELSE str

\* str.strip()
StrStrip(str) == StrRStrip(StrLStrip(str))

\* sub in str
StrContains(str, sub) ==
    \E k \in 0..(Len(str) - Len(sub)) : SubSeq(str, k + 1, k + Len(sub)) = sub

WatermarkMarker == <<"n", "o", "t", "e", "b", "o", "o", "k", "l", "m">>

valid_labels ==
    {"text", "title", "header", "footer", "reference", "paragraph_title", "algorithm"}

\* should_skip_text_block(label, content)
should_skip_text_block(label, content) ==
    IF label \notin valid_labels THEN TRUE
    ELSE IF label = "footer" /\ StrContains(StrLower(content), WatermarkMarker) THEN TRUE
    ELSE IF StrStrip(content) = <<>> THEN TRUE
    ELSE FALSE

(***************************************************************************)
(* get_line_count and calculate_font_size.                                 *)
(***************************************************************************)
\* twice the y centre of an OCR box: the sort key (b[1] + b[3]) / 2 doubled
YCenter2(b) == b[2] + b[4]

\* Mutant of CentreInside: the whole OCR box has to lie in the block.
BoxInside(block_bbox, obox) ==
    /\ block_bbox[1] <= obox[1]
    /\ obox[3] <= block_bbox[3]
    /\ block_bbox[2] <= obox[2]
    /\ obox[4] <= block_bbox[4]

\* lines 64-70: the centre of obox lies in the block (coordinates doubled)
CentreInside(block_bbox, obox) ==
    /\ 2 * block_bbox[1] <= obox[1] + obox[3]
    /\ obox[1] + obox[3] <= 2 * block_bbox[3]
    /\ 2 * block_bbox[2] <= obox[2] + obox[4]
    /\ obox[2] + obox[4] <= 2 * block_bbox[4]

\* list.sort is stable: x goes behind every element whose key is not larger
RECURSIVE InsertByYCenter(_, _)
InsertByYCenter(sorted, x) ==
    IF sorted = <<>> THEN <<x>>
    ELSE IF YCenter2(sorted[Len(sorted)]) <= YCenter2(x) THEN Append(sorted, x)
    ELSE Append(InsertByYCenter(SubSeq(sorted, 1, Len(sorted) - 1), x), sorted[Len(sorted)])

RECURSIVE SortByYCenter(_)
SortByYCenter(boxes) ==
    IF boxes = <<>> THEN <<>>
    ELSE InsertByYCenter(SortByYCenter(SubSeq(boxes, 1, Len(boxes) - 1)), boxes[Len(boxes)])

\* Mutant of CountLines: a new line needs a distance of a whole line height.
RECURSIVE CountLinesFullHeight(_, _, _, _, _)
CountLinesFullHeight(boxes, j, line_count, last_c2, last_h) ==
    IF j > Len(boxes) THEN line_count
    ELSE LET curr_c2 == YCenter2(boxes[j])
             curr_h == boxes[j][4] - boxes[j][2]
         IN  IF Abs(curr_c2 - last_c2) > 2 * Max(last_h, curr_h)
             THEN CountLinesFullHeight(boxes, j + 1, line_count + 1, curr_c2, curr_h)
             ELSE CountLinesFullHeight(boxes, j + 1, line_count, last_c2, last_h)

\* lines 78-92: the walk over the sorted boxes from index j on;
\* abs(dc) > max(h) * 0.6 with dc = dc2 / 2 is 5 * abs(dc2) > 6 * max(h)
RECURSIVE CountLines(_, _, _, _, _)
CountLines(boxes, j, line_count, last_c2, last_h) ==
    IF j > Len(boxes) THEN line_count
    ELSE LET curr_c2 == YCenter2(boxes[j])
             curr_h == boxes[j][4] - boxes[j][2]
         IN  IF 5 * Abs(curr_c2 - last_c2) > 6 * Max(last_h, curr_h)
             THEN CountLines(boxes, j + 1, line_count + 1, curr_c2, curr_h)
             ELSE CountLines(boxes, j + 1, line_count, last_c2, last_h)

\* `ox1, oy1, ox2, oy2 = obox` raises ValueError unless obox has four fields
UnpacksToFour(boxes) == \A i \in 1..Len(boxes) : Len(boxes[i]) = 4

\* get_line_count(block_bbox, ocr_boxes), for boxes that unpack
get_line_count(block_bbox, ocr_boxes) ==
    LET Inside(obox) == CentreInside(block_bbox, obox)
        contained_boxes == SortByYCenter(SelectSeq(ocr_boxes, Inside))
    IN  IF contained_boxes = <<>> THEN 0
        ELSE CountLines(contained_boxes, 2, 1, YCenter2(contained_boxes[1]),
                        contained_boxes[1][4] - contained_boxes[1][2])

MinFontSize == 8

\* calculate_font_size without the per-line division
calculate_font_size_whole_block(height, is_multiline, line_count) ==
    Max(MinFontSize, PyInt(3 * height[1], 4 * height[2]))

\* calculate_font_size(height, min_font_size=8, is_multiline, line_count) for
\* a rational height; x * 0.75 is 3x/4
calculate_font_size(height, is_multiline, line_count) ==
    IF is_multiline /\ line_count > 1
    THEN Max(MinFontSize, PyInt(3 * height[1], 4 * height[2] * line_count))
    ELSE Max(MinFontSize, PyInt(3 * height[1], 4 * height[2]))

(***************************************************************************)
(* Bounding boxes.                                                         *)
(***************************************************************************)
\* expand_bbox(bbox, expand_px, size)
expand_bbox(bbox, expand_px, size) ==
    <<Max(0, bbox[1] - expand_px), Max(0, bbox[2] - expand_px),
      Min(size[1], bbox[3] + expand_px), Min(size[2], bbox[4] + expand_px)>>

\* scale_bbox(bbox, s, make_int) for a rational s: integers when make_int,
\* rationals otherwise
scale_bbox(bbox, s, make_int) ==
    IF make_int
    THEN <<PyInt(bbox[1] * s[1], s[2]), PyInt(bbox[2] * s[1], s[2]),
           PyCeil(bbox[3] * s[1], s[2]), PyCeil(bbox[4] * s[1], s[2])>>
    ELSE [i \in 1..Len(bbox) |-> <<bbox[i] * s[1], s[2]>>]

ExpandPx == 2

(***************************************************************************)
(* setup_presentation(pdf_size): the slide size, in points.  The three     *)
(* screen formats have the sizes the presentation library gives them.      *)
(***************************************************************************)
SlideSizeOf(type) ==
    CASE type = "Screen16x9" -> <<Rat(720), Rat(405)>>
      [] type = "Screen16x10" -> <<Rat(720), Rat(450)>>
      [] type = "Screen4x3" -> <<Rat(720), Rat(540)>>

setup_presentation(pdf_size) ==
    LET pdf_width == pdf_size[1]
        pdf_height == pdf_size[2]
    IN  IF 100 * pdf_width > 165 * pdf_height THEN SlideSizeOf("Screen16x9")
        ELSE IF 100 * pdf_width > 145 * pdf_height THEN SlideSizeOf("Screen16x10")
        ELSE IF pdf_width > pdf_height THEN SlideSizeOf("Screen4x3")
        ELSE <<<<720 * pdf_width, pdf_height>>, Rat(720)>>

(***************************************************************************)
(* resize_data(data, pdf_size, ppt_size).                                  *)
(***************************************************************************)
\* Mutant of ScalesAgree: the two scales are not compared and scale_x is used.
ScalesAgreeUnchecked(pdf_size, ppt_size) == TRUE

\* line 691: abs(scale_x - scale_y) < 1e-2
ScalesAgree(pdf_size, ppt_size) ==
    RatWithinTolerance(<<ppt_size[1][1], ppt_size[1][2] * pdf_size[1]>>,
                       <<ppt_size[2][1], ppt_size[2][2] * pdf_size[2]>>)

\* lines 717-721: every OCR box of four or more fields goes through
\* scale_bbox, whose `l, t, r, b = bbox` takes exactly four
ResizeUnpacks(d) ==
    \A p \in 1..Len(d.ocrResults) :
        \A i \in 1..Len(d.ocrResults[p].rec_boxes) :
            LET bbox == d.ocrResults[p].rec_boxes[i] IN Len(bbox) >= 4 => Len(bbox) = 4

\* lines 692-723, for a record whose boxes unpack
resize_data(d, pdf_size, ppt_size) ==
    LET scale == <<ppt_size[1][1], ppt_size[1][2] * pdf_size[1]>>
        sized == update_data_size(d, PyInt(ppt_size[1][1], ppt_size[1][2]),
                                  <<PyInt(ppt_size[2][1], ppt_size[2][2])>>)
        ScaleB(item) ==
            IF item.block_bbox # <<>>
            THEN [item EXCEPT !.block_bbox = scale_bbox(@, scale, TRUE)]
            ELSE item
        ScaleO(bbox) ==
            IF bbox # <<>> /\ Len(bbox) >= 4 THEN scale_bbox(bbox, scale, TRUE) ELSE bbox
    IN  [sized EXCEPT
            !.layoutParsingResults = [i \in 1..Len(@) |->
                [@[i] EXCEPT !.parsing_res_list = SeqMap(ScaleB, @)]],
            !.ocrResults = [i \in 1..Len(@) |->
                [@[i] EXCEPT !.rec_boxes = SeqMap(ScaleO, @)]]]

(***************************************************************************)
(* Text shapes: create_text_shape and process_text_blocks.                 *)
(* A shape record carries `block`, the 0-based index of the block it was   *)
(* made from, so that shapes can be traced to blocks.                      *)
(***************************************************************************)
DeltaY == 2

\* create_text_shape(slide, content, label, bbox, scale, ppt_width, ppt_height,
\*                   font_size, font_name, delta_y=2)
create_text_shape(index, content, label, bbox, scale, ppt_width, ppt_height, font_size) ==
    LET left == <<bbox[1] * scale[1], scale[2]>>
        top == RatAdd(<<bbox[2] * scale[1], scale[2]>>, DeltaY)
        right == <<bbox[3] * scale[1], scale[2]>>
        bottom == RatAdd(<<bbox[4] * scale[1], scale[2]>>, DeltaY)
        h_padding == IF label = "paragraph_title" THEN 5 ELSE 15
        v_padding == 5
    IN  [kind |-> "text",
         name |-> label,
         text |-> content,
         alignment |-> IF label = "paragraph_title" THEN "Left" ELSE "Center",
         font_size |-> font_size,
         rect |-> <<RatMax(Rat(0), left),
                    RatMax(Rat(0), RatAdd(top, -v_padding)),
                    RatMin(ppt_width, RatAdd(right, h_padding + h_padding)),
                    RatMin(ppt_height, RatAdd(bottom, v_padding))>>,
         block |-> index]

\* lines 285-290: the block gets as far as get_line_count
ReachesTextShape(item) ==
    /\ item.block_bbox # <<>>
    /\ ~should_skip_text_block(item.block_label, item.block_content)

\* lines 292-306
TextShapeOf(index, item, ocr_boxes, scale, ppt_width, ppt_height) ==
    LET bbox == item.block_bbox
        line_count == get_line_count(bbox, ocr_boxes)
        height == <<(bbox[4] - bbox[2]) * scale[1], scale[2]>>
        font_size == calculate_font_size(height, line_count > 1, line_count)
    IN  create_text_shape(index, item.block_content, item.block_label, bbox, scale,
                          ppt_width, ppt_height, font_size)

\* process_text_blocks: the shapes appended to the slide, in order
process_text_blocks(parsing_res_list, ocr_boxes, scale, ppt_width, ppt_height) ==
    LET Reaches(i) == ReachesTextShape(parsing_res_list[i])
        ShapeAt(i) == TextShapeOf(i - 1, parsing_res_list[i], ocr_boxes, scale,
                                  ppt_width, ppt_height)
    IN  SeqMap(ShapeAt, SelectSeq([i \in 1..Len(parsing_res_list) |-> i], Reaches))

\* process_text_blocks raises ValueError: a block reaches get_line_count and
\* an OCR box does not unpack
TextBlocksRaise(parsing_res_list, ocr_boxes) ==
    /\ \E i \in 1..Len(parsing_res_list) : ReachesTextShape(parsing_res_list[i])
    /\ ~UnpacksToFour(ocr_boxes)

(***************************************************************************)
(* Foreground extraction and erasure, block by block.                      *)
(***************************************************************************)
foreground_labels == {"image", "table", "chart"}

erasable_labels ==
    {"text", "title", "header", "footer", "reference", "paragraph_title",
     "image", "table", "algorithm", "chart"}

\* lines 379-382 and 419-420: the pixel rectangle <<l, t, r, b>> of a block
PixelRect(bbox, img_scale, pdf_size) ==
    scale_bbox(expand_bbox(bbox, ExpandPx, pdf_size), img_scale, TRUE)

\* lines 384 and 422 negated: the rectangle is neither empty nor inverted
RectValid(rect) == ~(rect[3] <= rect[1] \/ rect[4] <= rect[2])

\* line 468 and lines 376-386: the block is cropped and gets an image shape
ExtractsForeground(item, img_scale, pdf_size) ==
    /\ item.block_label \in foreground_labels
    /\ item.block_bbox # <<>>
    /\ RectValid(PixelRect(item.block_bbox, img_scale, pdf_size))

\* Mutant of ErasesRegion: only blocks that were rendered, as text or as a
\* picture, are erased.
ErasesRenderedRegion(item, img_scale, pdf_size) ==
    /\ item.block_label \in erasable_labels
    /\ item.block_bbox # <<>>
    /\ RectValid(PixelRect(item.block_bbox, img_scale, pdf_size))
    /\ \/ item.block_label \in foreground_labels
       \/ ~should_skip_text_block(item.block_label, item.block_content)

\* lines 480-482 and 419-424: the block's region is erased
ErasesRegion(item, img_scale, pdf_size) ==
    /\ item.block_label \in erasable_labels
    /\ item.block_bbox # <<>>
    /\ RectValid(PixelRect(item.block_bbox, img_scale, pdf_size))

\* str(n) of a natural number, as a sequence of characters
DigitChar(d) == <<"0", "1", "2", "3", "4", "5", "6", "7", "8", "9">>[d + 1]

RECURSIVE Digits(_)
Digits(n) == IF n < 10 THEN <<DigitChar(n)>> ELSE Digits(n \div 10) \o <<DigitChar(n % 10)>>

\* the characters of the labels that reach line 390 (line 468)
LabelChars(label) ==
    CASE label = "image" -> <<"i", "m", "a", "g", "e">>
      [] label = "table" -> <<"t", "a", "b", "l", "e">>
      [] label = "chart" -> <<"c", "h", "a", "r", "t">>

\* Mutant of CropName: the file is named after the page and the label only.
CropNameOfLabel(page, label, index) ==
    <<"p", "a", "g", "e", "_">> \o Digits(page + 1) \o <<"_">> \o LabelChars(label)
        \o <<".", "p", "n", "g">>

\* lines 390-391: crop_name = f"page_{page_idx+1}_{label}_{index}.png"
CropName(page, label, index) ==
    <<"p", "a", "g", "e", "_">> \o Digits(page + 1) \o <<"_">> \o LabelChars(label)
        \o <<"_">> \o Digits(index) \o <<".", "p", "n", "g">>

\* lines 395-401: the image shape of a cropped block
ImageShapeOf(index, item, scale, pdf_size, page) ==
    [kind |-> "image",
     path |-> CropName(page, item.block_label, index),
     rect |-> scale_bbox(expand_bbox(item.block_bbox, ExpandPx, pdf_size), scale, FALSE),
     block |-> index]

\* Mutant of ToBottom: the shape stays where AppendEmbedImageByPath put it.
StaysOnTop(shapes, shape) == Append(shapes, shape)

\* ZOrderPosition = 0 on a shape just appended: it becomes the first shape
ToBottom(shapes, shape) == <<shape>> \o shapes

(***************************************************************************)
(* process_slide_background as the page loop sees it: what it adds to the  *)
(* slide and which files it writes.  Pixels are followed in SpecPage.      *)
(***************************************************************************)
RECURSIVE PlaceImages(_, _)
PlaceImages(shapes, images) ==
    IF images = <<>> THEN shapes
    ELSE PlaceImages(ToBottom(shapes, Head(images)), Tail(images))

Slide(shapes, crops, erased, background) ==
    [shapes |-> shapes, crops |-> crops, erased |-> erased, background |-> background]

\* line 833 and line 453: the page has a raster file and it exists
RasterAvailable(png, page) == page < Len(png) /\ png[page + 1]

\* lines 456-497 with the image resized to pdf_size, so img_scale is 1
process_slide_background(shapes, parsing_res_list, pdf_size, scale, page) ==
    LET img_scale == <<pdf_size[1], pdf_size[1]>>
        indices == [i \in 1..Len(parsing_res_list) |-> i]
        Extracts(i) == ExtractsForeground(parsing_res_list[i], img_scale, pdf_size)
        Erases(i) == ErasesRegion(parsing_res_list[i], img_scale, pdf_size)
        ImageAt(i) == ImageShapeOf(i - 1, parsing_res_list[i], scale, pdf_size, page)
        RectAt(i) == PixelRect(parsing_res_list[i].block_bbox, img_scale, pdf_size)
        images == SeqMap(ImageAt, SelectSeq(indices, Extracts))
        Path(shape) == shape.path
    IN  Slide(PlaceImages(shapes, images),
              SeqMap(Path, images),
              SeqMap(RectAt, SelectSeq(indices, Erases)),
              <<page + 1>>)

(***************************************************************************)
(* Spec: create_ppt_from_paddle_json from the loaded JSON on.              *)
(***************************************************************************)
NoFrame == [phase |-> "none"]

PipelineSizes == {<<12, 9>>, <<16, 9>>, <<20, 9>>, <<89, 50>>, <<30, 17>>, <<183, 103>>}

ContentHi == <<"H", "i">>

ContentBlank == <<" ", "\n">>

ContentMarkerMixed == <<"N", "o", "t", "e", "b", "o", "o", "k", "L", "M">>

ContentMarkerInside ==
    <<" ", "b", "y", " ", "n", "o", "t", "e", "b", "o", "o", "k", "l", "m", " ">>

ContentNearMarker == <<"N", "O", "T", "E", "B", "O", "O", "K", " ", "L", "M">>

AllLabels == valid_labels \cup foreground_labels \cup {"unknown"}

\* the blocks a page of the text family is made of
TextPool ==
    {Block(l, c, <<2, 1, 14, 3>>) : l \in AllLabels, c \in {<<>>, ContentBlank, ContentHi}}
    \cup {Block(l, c, <<2, 6, 14, 8>>) :
            l \in {"footer", "text"},
            c \in {ContentMarkerMixed, ContentMarkerInside, ContentNearMarker}}
    \cup {Block(l, ContentHi, <<>>) : l \in {"title", "image"}}

\* a page with a title over an image, and a page with a watermark footer
StandardBlocks(w, h, p) ==
    IF p = 1
    THEN <<Block("title", ContentHi, <<2, 1, w - 2, 3>>),
           Block("image", <<>>, <<2, 4, w \div 2, h - 1>>)>>
    ELSE <<Block("footer", ContentMarkerMixed, <<w \div 2, h - 2, w, h>>),
           Block("paragraph_title", ContentHi, <<0, 0, w \div 2, 2>>)>>

StandardLines(w, h, p) == IF p = 1 THEN <<<<3, 1, w - 3, 3>>>> ELSE <<<<0, 0, 4, 2>>>>

\* documents that differ in size and in the number of layout pages, OCR
\* pages and raster files
PageFamily ==
    {[doc |-> Document([p \in 1..n |-> PageLayout(size[1], size[2],
                                                   StandardBlocks(size[1], size[2], p))],
                       [p \in 1..m |-> OcrPage(StandardLines(size[1], size[2], p))]),
      png |-> png] :
        size \in PipelineSizes, n \in 1..MaxPages, m \in 0..MaxPages,
        png \in SeqsUpTo(BOOLEAN, MaxPages)}

\* one-page documents that differ in the labels and contents of the blocks
TextFamily ==
    {[doc |-> Document(<<PageLayout(16, 9, blocks)>>, <<OcrPage(<<<<3, 1, 13, 3>>>>)>>),
      png |-> <<TRUE>>] :
        blocks \in SeqsUpTo(TextPool, MaxBlocks)}

\* one-page documents with an OCR box of five fields or of two
OddOcrFamily ==
    {[doc |-> Document(<<PageLayout(16, 9, StandardBlocks(16, 9, 1))>>, <<OcrPage(<<box>>)>>),
      png |-> <<TRUE>>] :
        box \in {<<3, 1, 13, 3, 7>>, <<3, 1>>}}

\* the page of the end-to-end scenario: 1000 x 1000, a title block and a
\* footer with the watermark marker; with no OCR line or one line in the title
ScenarioTitle == Block("title", ContentHi, <<100, 50, 900, 150>>)

ScenarioFooter == Block("footer", ContentMarkerInside, <<100, 900, 900, 950>>)

ScenarioFamily ==
    {[doc |-> Document(<<PageLayout(1000, 1000, <<ScenarioTitle, ScenarioFooter>>)>>,
                       <<OcrPage(lines)>>),
      png |-> png] :
        lines \in {<<>>, <<<<120, 60, 880, 140>>>>},
        png \in {<<TRUE>>, <<FALSE>>}}

\* the blocks a page of the image family is made of: foreground blocks in
\* the page, filling the page, inverted and without bbox, and a text block
ImagePool ==
    {Block(l, <<>>, b) :
        l \in {"image", "table", "chart"},
        b \in {<<2, 4, 8, 8>>, <<0, 0, 16, 9>>, <<8, 4, 2, 8>>, <<>>}}
    \cup {Block("text", ContentHi, <<2, 1, 14, 3>>)}

\* text blocks and foreground blocks in turn
InterleavedBlocks ==
    <<Block("text", ContentHi, <<2, 1, 14, 3>>),
      Block("image", <<>>, <<2, 4, 8, 8>>),
      Block("header", ContentHi, <<0, 0, 16, 1>>),
      Block("chart", <<>>, <<9, 4, 15, 8>>)>>

\* two-page documents with rasters that differ in the blocks of the first page
ImageFamily ==
    {[doc |-> Document(<<PageLayout(16, 9, blocks),
                         PageLayout(16, 9, <<Block("image", <<>>, <<1, 1, 5, 5>>),
                                             Block("table", <<>>, <<6, 1, 15, 8>>)>>)>>,
                       <<OcrPage(<<>>), OcrPage(<<>>)>>),
      png |-> <<TRUE, TRUE>>] :
        blocks \in SeqsUpTo(ImagePool, MaxBlocks) \cup {InterleavedBlocks}}

\* blocks with a degenerate bbox: of zero width, of zero height and inverted
DegeneratePool ==
    {Block(l, ContentHi, b) :
        l \in {"text", "image"},
        b \in {<<4, 2, 4, 6>>, <<2, 3, 10, 3>>, <<14, 2, 2, 6>>}}
    \cup {Block("text", ContentHi, <<2, 1, 14, 3>>)}

\* one-page documents with rasters whose blocks have degenerate boxes
DegenerateFamily ==
    {[doc |-> Document(<<PageLayout(16, 9, blocks)>>, <<OcrPage(<<>>)>>),
      png |-> <<TRUE>>] :
        blocks \in SeqsUpTo(DegeneratePool, MaxBlocks)}

PipelineInputs == PageFamily \cup TextFamily \cup OddOcrFamily \cup ScenarioFamily

\* the state when create_ppt_from_paddle_json has read the input
ReadInput(input) ==
    /\ json_data = input.doc
    /\ data = input.doc
    /\ png_files = input.png
    /\ pc = "read"
    /\ ppt_dims = <<>>
    /\ page_idx = 0
    /\ slides = <<>>
    /\ final_ppt = FALSE
    /\ error = ""
    /\ bg = NoFrame

Init ==
    \/ \E input \in PipelineInputs : ReadInput(input)
    \/ \E input \in ImageFamily \cup DegenerateFamily : ReadInput(input)

\* line 792
MakeWideScreen ==
    /\ pc = "read"
    /\ data' = make_data_wide_screen(data)
    /\ pc' = "wide"
    /\ UNCHANGED <<json_data, png_files, ppt_dims, page_idx, slides, final_ppt, error, bg>>

\* lines 800-804
SetupPresentation ==
    /\ pc = "wide"
    /\ ppt_dims' = setup_presentation(get_pdf_size_from_data(data))
    /\ pc' = "setup"
    /\ UNCHANGED <<json_data, data, png_files, page_idx, slides, final_ppt, error, bg>>

\* line 808: abs(ppt_width / pdf_size[0] - 1.0) < 1e-2 with the new pdf_size
ScaleIsOne(ppt_size) ==
    LET new_w == PyInt(ppt_size[1][1], ppt_size[1][2]) IN
    new_w # 0 /\ RatWithinTolerance(<<ppt_size[1][1], ppt_size[1][2] * new_w>>, Rat(1))

\* lines 805-809, no exception
ResizeData ==
    /\ pc = "setup"
    /\ ScalesAgree(get_pdf_size_from_data(data), ppt_dims)
    /\ ResizeUnpacks(data)
    /\ ScaleIsOne(ppt_dims)
    /\ data' = resize_data(data, get_pdf_size_from_data(data), ppt_dims)
    /\ pc' = "pages"
    /\ UNCHANGED <<json_data, png_files, ppt_dims, page_idx, slides, final_ppt, error, bg>>

\* line 691 (or line 808): the assertion fails, nothing has been rewritten
ResizeAssertionError ==
    /\ pc = "setup"
    /\ \/ ~ScalesAgree(get_pdf_size_from_data(data), ppt_dims)
       \/ ~ScaleIsOne(ppt_dims)
    /\ error' = "AssertionError"
    /\ pc' = "failed"
    /\ UNCHANGED <<json_data, data, png_files, ppt_dims, page_idx, slides, final_ppt, bg>>

\* line 720: scale_bbox cannot unpack an OCR box; the rewriting was done on
\* resize_data's own copy, which is lost
ResizeValueError ==
    /\ pc = "setup"
    /\ ScalesAgree(get_pdf_size_from_data(data), ppt_dims)
    /\ ~ResizeUnpacks(data)
    /\ error' = "ValueError"
    /\ pc' = "failed"
    /\ UNCHANGED <<json_data, data, png_files, ppt_dims, page_idx, slides, final_ppt, bg>>

EmptySlide == Slide(<<>>, <<>>, <<>>, <<>>)

\* line 823: ocr_results[page_idx] raises IndexError
OcrEntryMissing(ocr_results, page) == page >= Len(ocr_results)

\* lines 819-836: one pass of the page loop that raises nothing
ProcessPage ==
    /\ pc = "pages"
    /\ page_idx < Len(data.layoutParsingResults)
    /\ ~OcrEntryMissing(data.ocrResults, page_idx)
    /\ LET parsing_res_list == data.layoutParsingResults[page_idx + 1].parsing_res_list
           ocr_boxes == data.ocrResults[page_idx + 1].rec_boxes
           pdf_size == get_pdf_size_from_data(data)
           texts == process_text_blocks(parsing_res_list, ocr_boxes, Rat(1),
                                        ppt_dims[1], ppt_dims[2])
       IN  /\ ~TextBlocksRaise(parsing_res_list, ocr_boxes)
           /\ slides' = Append(slides,
                  IF RasterAvailable(png_files, page_idx)
                  THEN process_slide_background(texts, parsing_res_list, pdf_size,
                                                Rat(1), page_idx)
                  ELSE Slide(texts, <<>>, <<>>, <<>>))
    /\ page_idx' = page_idx + 1
    /\ UNCHANGED <<pc, json_data, data, png_files, ppt_dims, final_ppt, error, bg>>

\* lines 820-823: the slide is appended, then ocr_results[page_idx] raises
PageIndexError ==
    /\ pc = "pages"
    /\ page_idx < Len(data.layoutParsingResults)
    /\ OcrEntryMissing(data.ocrResults, page_idx)
    /\ slides' = Append(slides, EmptySlide)
    /\ error' = "IndexError"
    /\ pc' = "failed"
    /\ UNCHANGED <<json_data, data, png_files, ppt_dims, page_idx, final_ppt, bg>>

\* lines 820-829: get_line_count raises ValueError on the first block that
\* reaches it, before any shape is made
PageValueError ==
    /\ pc = "pages"
    /\ page_idx < Len(data.layoutParsingResults)
    /\ ~OcrEntryMissing(data.ocrResults, page_idx)
    /\ TextBlocksRaise(data.layoutParsingResults[page_idx + 1].parsing_res_list,
                       data.ocrResults[page_idx + 1].rec_boxes)
    /\ slides' = Append(slides, EmptySlide)
    /\ error' = "ValueError"
    /\ pc' = "failed"
    /\ UNCHANGED <<json_data, data, png_files, ppt_dims, page_idx, final_ppt, bg>>

\* lines 839-843
SaveToFile ==
    /\ pc = "pages"
    /\ page_idx = Len(data.layoutParsingResults)
    /\ final_ppt' = TRUE
    /\ pc' = "saved"
    /\ UNCHANGED <<json_data, data, png_files, ppt_dims, page_idx, slides, error, bg>>

Next ==
    \/ MakeWideScreen
    \/ SetupPresentation
    \/ ResizeData
    \/ ResizeAssertionError
    \/ ResizeValueError
    \/ ProcessPage
    \/ PageIndexError
    \/ PageValueError
    \/ SaveToFile

Spec == Init /\ [][Next]_vars

(***************************************************************************)
(* SpecWide: documents of two pages; the first page is narrower than,      *)
(* equal to or wider than its 16:9 width.  Boxes sit on a grid that holds  *)
(* the crop window's edges, so a box can end exactly on an edge.           *)
(***************************************************************************)
WideFirstSizes == {<<12, 9>>, <<16, 9>>, <<20, 9>>}

\* the second page has a size of its own; only the first page's size is read
WideSecondSize(size1) == <<size1[1] + 2, size1[2] + 1>>

\* x-extents of the boxes of a page of width w (zero-width ones included)
WideXPairs(w) ==
    LET m == w \div 2 IN
    {<<0, 2>>, <<2, 2>>, <<2, m>>, <<m, w - 2>>, <<0, m>>, <<m, w>>,
     <<w - 2, w - 2>>, <<w - 2, w>>, <<0, w>>}

WideBlockBoxes(w) == {<<x[1], 1, x[2], 4>> : x \in WideXPairs(w)} \cup {<<>>}

\* OCR lines: inside, over the left edge, right of the window, with a fifth
\* field, and too short to be a box
WideOcrBoxes(w) ==
    {<<3, 2, 5, 3>>, <<0, 2, 3, 3>>, <<w - 2, 5, w, 6>>, <<2, 2, 6, 3, 7>>, <<1, 2>>}

\* one item of a document: a block or an OCR line, on page 1 or 2
WideItems(w) ==
    [page : {1, 2}, kind : {"block"}, box : WideBlockBoxes(w)]
    \cup [page : {1, 2}, kind : {"line"}, box : WideOcrBoxes(w)]

ItemsOf(its, p, k) ==
    LET Is(it) == it.page = p /\ it.kind = k IN SelectSeq(its, Is)

WideDocument(size1, its) ==
    LET BlockOf(it) == Block("text", <<"a">>, it.box)
        BoxOf(it) == it.box
        Layout(p, size) ==
            PageLayout(size[1], size[2], SeqMap(BlockOf, ItemsOf(its, p, "block")))
        Ocr(p) == OcrPage(SeqMap(BoxOf, ItemsOf(its, p, "line")))
    IN  Document(<<Layout(1, size1), Layout(2, WideSecondSize(size1))>>, <<Ocr(1), Ocr(2)>>)

InitWide ==
    \E size1 \in WideFirstSizes :
      \E its \in SeqsUpTo(WideItems(size1[1]), MaxItems) :
        /\ json_data = WideDocument(size1, its)
        /\ data = json_data
        /\ pc = "start"
        /\ png_files = <<>>
        /\ ppt_dims = <<>>
        /\ page_idx = 0
        /\ slides = <<>>
        /\ final_ppt = FALSE
        /\ error = ""
        /\ bg = NoFrame

\* data = make_data_wide_screen(data), first call
WideFirst ==
    /\ pc = "start"
    /\ data' = make_data_wide_screen(data)
    /\ pc' = "once"
    /\ UNCHANGED <<json_data, png_files, ppt_dims, page_idx, slides, final_ppt, error, bg>>

\* the same function applied to its own result
WideAgain ==
    /\ pc = "once"
    /\ data' = make_data_wide_screen(data)
    /\ pc' = "twice"
    /\ UNCHANGED <<json_data, png_files, ppt_dims, page_idx, slides, final_ppt, error, bg>>

NextWide == WideFirst \/ WideAgain

SpecWide == InitWide /\ [][NextWide]_vars

(***************************************************************************)
(* SpecPage: process_slide_background on one page, with its pixels.        *)
(* A raster is a function from pixels <<x, y>> (column, row, 0-based) to   *)
(* colours; image_cv[t:b, l:r] is the pixels with l <= x < r, t <= y < b.  *)
(* The frame bg holds the arguments, the locals and the files written.     *)
(***************************************************************************)
Pixels(size) == (0..(size[1] - 1)) \X (0..(size[2] - 1))

RectPixels(rect) == (rect[1]..(rect[3] - 1)) \X (rect[2]..(rect[4] - 1))

\* image_cv[t:b, l:r] read out
CropOf(raster, rect) == [px \in RectPixels(rect) \cap DOMAIN raster |-> raster[px]]

\* Mutant of Filled: image_cv[t:b] = fill_color, the rows in their full width.
FilledRows(raster, rect, fill_color) ==
    [px \in DOMAIN raster |->
        IF px[2] >= rect[2] /\ px[2] < rect[4] THEN fill_color ELSE raster[px]]

\* image_cv[t:b, l:r] = fill_color
Filled(raster, rect, fill_color) ==
    [px \in DOMAIN raster |-> IF px \in RectPixels(rect) THEN fill_color ELSE raster[px]]

\* the pixels of the region that lie on its edge
EdgePixels(raster, rect) ==
    {px \in RectPixels(rect) \cap DOMAIN raster :
        \/ px[1] \in {rect[1], rect[3] - 1}
        \/ px[2] \in {rect[2], rect[4] - 1}}

\* compute_edge_diversity_numpy(image, l, t, r, b, tolerance)[1]: the colour
\* most frequent on the region's edge, the smallest one among equals
EdgeFillColor(raster, rect) ==
    LET edge == EdgePixels(raster, rect)
        Count(c) == Cardinality({px \in edge : raster[px] = c})
        colours == {raster[px] : px \in edge}
    IN  CHOOSE c \in colours :
            \A d \in colours : Count(d) < Count(c) \/ (Count(d) = Count(c) /\ c <= d)

\* erase_region(image_cv, bbox, img_scale, pdf_size): the raster afterwards
erase_region(raster, bbox, img_scale, pdf_size) ==
    LET rect == PixelRect(bbox, img_scale, pdf_size) IN
    IF ~RectValid(rect) THEN raster
    ELSE Filled(raster, rect, EdgeFillColor(raster, rect))

PageSize == <<6, 5>>

\* the rasters a page file resizes to: one colour, or three fields
PageRasters ==
    {[px \in Pixels(PageSize) |-> 0]}
    \cup {[px \in Pixels(PageSize) |-> IF px[1] < a THEN 0 ELSE IF px[2] < b THEN 1 ELSE 2] :
            a \in {1, 3, 5}, b \in {1, 3}}

\* boxes in three corners and the middle, and one with its x-extent inverted
PageBoxes == {<<0, 0, 2, 1>>, <<3, 2, 4, 3>>, <<4, 4, 6, 5>>, <<5, 1, 0, 2>>}

PagePool ==
    {Block(l, ContentHi, box) : l \in {"image", "text", "unknown"}, box \in PageBoxes}
    \cup {Block("image", ContentHi, <<>>)}

\* the page of the scenario with a raster file of twice the resolution: one
\* image block on a 60 x 60 page
ScenarioPageSize == <<60, 60>>

ScenarioImage == Block("image", <<>>, <<10, 10, 50, 50>>)

Twice(size) == <<2 * size[1], 2 * size[2]>>

\* the frame at the call; png is <<>> when the file does not exist and
\* <<raster>> otherwise, the raster being what img.resize(pdf_size) returns
\* and png_size the size of the picture in the file
Frame(parsing_res_list, png, png_size, pdf_size, page) ==
    [phase |-> "call", parsing_res_list |-> parsing_res_list, png |-> png,
     png_size |-> png_size, img_scale |-> <<>>,
     pdf_size |-> pdf_size, page |-> page, image_cv |-> <<>>, i |-> 0,
     shapes |-> <<>>, crops |-> <<>>, fills |-> <<>>, processed_png |-> <<>>,
     background |-> <<>>]

InitPage ==
    /\ \/ \E blocks \in SeqsUpTo(PagePool, MaxBlocks) :
            \/ bg = Frame(blocks, <<>>, <<>>, PageSize, 0)
            \/ \E raster \in PageRasters, png_size \in {PageSize, Twice(PageSize)} :
                  bg = Frame(blocks, <<raster>>, png_size, PageSize, 0)
       \/ \E png_size \in {ScenarioPageSize, Twice(ScenarioPageSize)} :
             bg = Frame(<<ScenarioImage>>, <<[px \in Pixels(ScenarioPageSize) |-> 0]>>,
                        png_size, ScenarioPageSize, 0)
    /\ pc = "page"
    /\ json_data = <<>>
    /\ data = <<>>
    /\ png_files = <<>>
    /\ ppt_dims = <<>>
    /\ page_idx = 0
    /\ slides = <<>>
    /\ final_ppt = FALSE
    /\ error = ""

pageFrameVars == <<pc, json_data, data, png_files, ppt_dims, page_idx, slides, final_ppt, error>>

\* line 462: image_w / pdf_w, image_w being the width after the resize
ImgScaleOf(pdf_size) == <<pdf_size[1], pdf_size[1]>>

\* lines 453-454
BgFileMissing ==
    /\ bg.phase = "call"
    /\ bg.png = <<>>
    /\ bg' = [bg EXCEPT !.phase = "returned"]
    /\ UNCHANGED pageFrameVars

\* lines 457-463
BgLoad ==
    /\ bg.phase = "call"
    /\ bg.png # <<>>
    /\ bg' = [bg EXCEPT !.phase = "extract", !.image_cv = bg.png[1], !.i = 0,
                        !.img_scale = ImgScaleOf(bg.pdf_size)]
    /\ UNCHANGED pageFrameVars

\* the frame after extract_foreground_element on a block (lines 468-470)
Extracted(frame, item, index) ==
    IF ExtractsForeground(item, ImgScaleOf(frame.pdf_size), frame.pdf_size)
    THEN LET rect == PixelRect(item.block_bbox, ImgScaleOf(frame.pdf_size), frame.pdf_size) IN
         [frame EXCEPT
            !.crops = Append(@, [name |-> CropName(frame.page, item.block_label, index),
                                 rect |-> rect,
                                 pixels |-> CropOf(frame.image_cv, rect)]),
            !.shapes = ToBottom(@, ImageShapeOf(index, item, Rat(1), frame.pdf_size,
                                                frame.page))]
    ELSE frame

\* the frame after erase_region on a block (lines 480-483)
Erased(frame, item, index) ==
    IF ErasesRegion(item, ImgScaleOf(frame.pdf_size), frame.pdf_size)
    THEN LET rect == PixelRect(item.block_bbox, ImgScaleOf(frame.pdf_size), frame.pdf_size) IN
         [frame EXCEPT
            !.image_cv = erase_region(@, item.block_bbox, ImgScaleOf(frame.pdf_size),
                                      frame.pdf_size),
            !.fills = Append(@, [index |-> index, rect |-> rect,
                                 color |-> EdgeFillColor(frame.image_cv, rect)])]
    ELSE frame

\* Mutant of BgExtract: one loop that crops a block and erases it at once.
BgExtractAndErase ==
    /\ bg.phase = "extract"
    /\ bg.i < Len(bg.parsing_res_list)
    /\ LET item == bg.parsing_res_list[bg.i + 1] IN
       bg' = [Erased(Extracted(bg, item, bg.i), item, bg.i) EXCEPT !.i = bg.i + 1]
    /\ UNCHANGED pageFrameVars

\* lines 466-470: one pass of the first loop
BgExtract ==
    /\ bg.phase = "extract"
    /\ bg.i < Len(bg.parsing_res_list)
    /\ bg' = [Extracted(bg, bg.parsing_res_list[bg.i + 1], bg.i) EXCEPT !.i = bg.i + 1]
    /\ UNCHANGED pageFrameVars

\* the first loop is over, the second one begins (line 478)
BgExtractDone ==
    /\ bg.phase = "extract"
    /\ bg.i = Len(bg.parsing_res_list)
    /\ bg' = [bg EXCEPT !.phase = "erase", !.i = 0]
    /\ UNCHANGED pageFrameVars

\* Mutant of BgErase: the second loop walks the list from its end.
BgEraseReversed ==
    /\ bg.phase = "erase"
    /\ bg.i < Len(bg.parsing_res_list)
    /\ LET index == Len(bg.parsing_res_list) - 1 - bg.i IN
       bg' = [Erased(bg, bg.parsing_res_list[index + 1], index) EXCEPT !.i = bg.i + 1]
    /\ UNCHANGED pageFrameVars

\* lines 478-483: one pass of the second loop
BgErase ==
    /\ bg.phase = "erase"
    /\ bg.i < Len(bg.parsing_res_list)
    /\ bg' = [Erased(bg, bg.parsing_res_list[bg.i + 1], bg.i) EXCEPT !.i = bg.i + 1]
    /\ UNCHANGED pageFrameVars

\* lines 487-497: the raster is saved and made the slide's background
BgSave ==
    /\ bg.phase = "erase"
    /\ bg.i = Len(bg.parsing_res_list)
    /\ bg' = [bg EXCEPT !.phase = "done",
                        !.processed_png = <<bg.image_cv>>,
                        !.background = <<bg.page + 1>>]
    /\ UNCHANGED pageFrameVars

NextPage == BgFileMissing \/ BgLoad \/ BgExtract \/ BgExtractDone \/ BgErase \/ BgSave

SpecPage == InitPage /\ [][NextPage]_vars

(***************************************************************************)
(* Properties of process_slide_background (SpecPage).                      *)
(***************************************************************************)
Running == bg.phase \in {"extract", "erase", "done"}

ForegroundBlocks ==
    {i \in 1..Len(bg.parsing_res_list) :
        ExtractsForeground(bg.parsing_res_list[i], ImgScaleOf(bg.pdf_size), bg.pdf_size)}

ErasedBlocks ==
    {i \in 1..Len(bg.parsing_res_list) :
        ErasesRegion(bg.parsing_res_list[i], ImgScaleOf(bg.pdf_size), bg.pdf_size)}

\* C1: every crop holds the pixels of the loaded raster in its rectangle;
\* once a region has been erased every foreground block has been cropped;
\* and the background file is written after the last erasure, holding the
\* raster as the erasures left it.
C1_ExtractBeforeErase ==
    Running =>
        /\ \A k \in 1..Len(bg.crops) :
             bg.crops[k].pixels = [px \in RectPixels(bg.crops[k].rect) |-> bg.png[1][px]]
        /\ bg.fills # <<>> => Len(bg.crops) = Cardinality(ForegroundBlocks)
        /\ bg.processed_png # <<>> =>
             /\ Len(bg.fills) = Cardinality(ErasedBlocks)
             /\ bg.processed_png[1] = bg.image_cv

\* C1 witness: the background has been saved after a crop was taken from a
\* rectangle that the erasures then changed.
C1_Witness ==
    /\ bg.phase = "done"
    /\ Len(bg.fills) >= 2
    /\ \E k \in 1..Len(bg.crops) :
         \E px \in RectPixels(bg.crops[k].rect) : bg.image_cv[px] # bg.png[1][px]

RECURSIVE EraseAll(_, _, _, _)
\* the erasures of the blocks from index k on, in list order
EraseAll(raster, blocks, k, pdf_size) ==
    IF k > Len(blocks) THEN raster
    ELSE EraseAll(IF blocks[k].block_label \in erasable_labels /\ blocks[k].block_bbox # <<>>
                  THEN erase_region(raster, blocks[k].block_bbox, ImgScaleOf(pdf_size), pdf_size)
                  ELSE raster,
                  blocks, k + 1, pdf_size)

\* the erasures done so far whose rectangle holds pixel px
Covering(px) == {k \in 1..Len(bg.fills) : px \in RectPixels(bg.fills[k].rect)}

\* C2: regions are erased in list order, so that every pixel of the raster
\* carries the fill colour of the last block in the list whose rectangle
\* holds it (the loaded colour if there is none), and the saved background
\* is the loaded raster with the blocks' erasures applied in list order.
C2_ErasureOrder ==
    Running =>
        /\ \A j, k \in 1..Len(bg.fills) : j < k => bg.fills[j].index < bg.fills[k].index
        /\ \A px \in Pixels(bg.pdf_size) :
             IF Covering(px) = {} THEN bg.image_cv[px] = bg.png[1][px]
             ELSE \E k \in Covering(px) :
                    /\ \A j \in Covering(px) : bg.fills[j].index <= bg.fills[k].index
                    /\ bg.image_cv[px] = bg.fills[k].color
        /\ bg.phase = "done" =>
             bg.processed_png[1] = EraseAll(bg.png[1], bg.parsing_res_list, 1, bg.pdf_size)

\* C2 witness: two erased rectangles overlap, were filled with different
\* colours, and the background has been saved.
C2_Witness ==
    /\ bg.phase = "done"
    /\ \E j, k \in 1..Len(bg.fills) :
         /\ j < k
         /\ bg.fills[j].color # bg.fills[k].color
         /\ RectPixels(bg.fills[j].rect) \cap RectPixels(bg.fills[k].rect) # {}

(***************************************************************************)
(* Properties of make_data_wide_screen (SpecWide).                         *)
(***************************************************************************)
\* the 16:9 width of a page of height h, stated without the code's formula:
\* the integer nearest to 16h/9
NearestWide(h) == CHOOSE t \in 0..(2 * h + 1) : 2 * Abs(9 * t - 16 * h) < 9

InW == json_data.layoutParsingResults[1].width

InH == json_data.layoutParsingResults[1].height

InPages == json_data.layoutParsingResults

OutPages == data.layoutParsingResults

\* C8: aspect conformance is idempotent: a first page that already has its
\* 16:9 width comes back equal to the input, and a second application of
\* make_data_wide_screen changes nothing of the first one's result.
C8_Idempotent ==
    [][/\ (pc = "start" /\ pc' = "once" /\ InW = NearestWide(InH)) => data' = json_data
       /\ (pc = "once" /\ pc' = "twice") => data' = data]_vars

\* C8 witness: a padded or cropped document with a block has been put
\* through the function a second time.
C8_Witness ==
    /\ pc = "twice"
    /\ data # json_data
    /\ \E p \in 1..Len(OutPages) : \E i \in 1..Len(OutPages[p].parsing_res_list) :
          OutPages[p].parsing_res_list[i].block_bbox # <<>>

ShiftedBox(old, new, d) ==
    /\ Len(new) = Len(old)
    /\ new[1] = old[1] + d
    /\ new[3] = old[3] + d
    /\ \A k \in 1..Len(old) : k \notin {1, 3} => new[k] = old[k]

\* C9: when the 16:9 width exceeds the first page's width w, every block
\* bbox and every OCR line of every page has offset = (target - w) div 2
\* added to x1 and x2 and nothing else changed, no block or line is dropped
\* or reordered, and every page gets width target and keeps its height.
C9_Pad ==
    (pc = "once" /\ NearestWide(InH) > InW) =>
        LET target == NearestWide(InH)
            offset == (target - InW) \div 2
        IN  /\ Len(OutPages) = Len(InPages)
            /\ \A p \in 1..Len(InPages) :
                  LET old == InPages[p].parsing_res_list
                      new == OutPages[p].parsing_res_list
                  IN  /\ OutPages[p].width = target
                      /\ OutPages[p].height = InPages[p].height
                      /\ Len(new) = Len(old)
                      /\ \A i \in 1..Len(old) :
                            /\ new[i].block_label = old[i].block_label
                            /\ new[i].block_content = old[i].block_content
                            /\ IF old[i].block_bbox = <<>>
                               THEN new[i].block_bbox = <<>>
                               ELSE ShiftedBox(old[i].block_bbox, new[i].block_bbox, offset)
            /\ Len(data.ocrResults) = Len(json_data.ocrResults)
            /\ \A p \in 1..Len(json_data.ocrResults) :
                  LET old == json_data.ocrResults[p].rec_boxes
                      new == data.ocrResults[p].rec_boxes
                  IN  /\ Len(new) = Len(old)
                      /\ \A i \in 1..Len(old) :
                            IF Len(old[i]) >= 4
                            THEN ShiftedBox(old[i], new[i], offset)
                            ELSE new[i] = old[i]

\* C9 witness: a narrow document whose second page holds two boxed blocks
\* has been padded by a positive offset.
C9_Witness ==
    /\ pc = "once"
    /\ NearestWide(InH) > InW + 1
    /\ Len(InPages[2].parsing_res_list) = 2
    /\ \A i \in 1..2 : InPages[2].parsing_res_list[i].block_bbox # <<>>
    /\ InPages[2].parsing_res_list[1] # InPages[2].parsing_res_list[2]

\* the crop window of the input document
CropLeft == (InW - NearestWide(InH)) \div 2

CropRight == CropLeft + NearestWide(InH)

OutsideWindow(b) == b.block_bbox[3] <= CropLeft \/ b.block_bbox[1] >= CropRight

InsideWindow(b) == CropLeft <= b.block_bbox[1] /\ b.block_bbox[3] <= CropRight

ClipX(v) == Max(0, Min(NearestWide(InH), v))

\* the survivor made of input block old: x translated by -left and clipped
\* into [0, target], everything else as it was
CroppedFrom(old, new) ==
    /\ new.block_label = old.block_label
    /\ new.block_content = old.block_content
    /\ new.block_bbox = <<ClipX(old.block_bbox[1] - CropLeft), old.block_bbox[2],
                          ClipX(old.block_bbox[3] - CropLeft), old.block_bbox[4]>>

\* f maps the output list into the input list, keeping the order; boxed
\* input blocks for which MustGo holds are not in its range, those for which
\* MustStay holds are, with their width kept
CropRelates(old, new, f, MustGo(_), MustStay(_)) ==
    /\ \A j \in 1..Len(new) : old[f[j]].block_bbox # <<>> /\ CroppedFrom(old[f[j]], new[j])
    /\ \A j, k \in 1..Len(new) : j < k => f[j] < f[k]
    /\ \A i \in 1..Len(old) :
          old[i].block_bbox # <<>> =>
            /\ MustGo(old[i]) => \A j \in 1..Len(new) : f[j] # i
            /\ MustStay(old[i]) =>
                  \E j \in 1..Len(new) :
                    /\ f[j] = i
                    /\ new[j].block_bbox[3] - new[j].block_bbox[1]
                         = old[i].block_bbox[3] - old[i].block_bbox[1]

CropHolds(MustGo(_), MustStay(_)) ==
    (pc = "once" /\ NearestWide(InH) < InW) =>
        /\ Len(OutPages) = Len(InPages)
        /\ \A p \in 1..Len(InPages) :
              LET old == InPages[p].parsing_res_list
                  new == OutPages[p].parsing_res_list
              IN  /\ Len(new) <= Len(old)
                  /\ \E f \in [1..Len(new) -> 1..Len(old)] :
                        CropRelates(old, new, f, MustGo, MustStay)

StaysAmended(b) == InsideWindow(b) /\ ~OutsideWindow(b)

\* C10 as stated: in the crop case every block with x2 <= left or x1 >= right
\* is absent, every block with left <= x1 and x2 <= right is present with its
\* width unchanged, survivors are translated by -left and clipped into
\* [0, target], keep y and keep their order.
C10_AsStated == CropHolds(OutsideWindow, InsideWindow)

\* C10 (amended): as stated, except that a zero-width block lying on an edge
\* of the window (x1 = x2 = left or x1 = x2 = right), which satisfies both
\* conditions, is absent.
C10_Crop == CropHolds(OutsideWindow, StaysAmended)

\* C10 witness: a wide page has been cropped with one block dropped (it ends
\* on the left edge) and one block inside the window kept.
C10_Witness ==
    /\ pc = "once"
    /\ NearestWide(InH) < InW
    /\ Len(InPages[1].parsing_res_list) = 2
    /\ Len(OutPages[1].parsing_res_list) = 1
    /\ \E i \in 1..2 :
          LET b == InPages[1].parsing_res_list[i] IN
          b.block_bbox # <<>> /\ b.block_bbox[1] < b.block_bbox[3] /\ OutsideWindow(b)
    /\ \E i \in 1..2 :
          LET b == InPages[1].parsing_res_list[i] IN
          b.block_bbox # <<>> /\ b.block_bbox[1] < b.block_bbox[3] /\ InsideWindow(b)

(***************************************************************************)
(* Properties of the pipeline (Spec).                                      *)
(***************************************************************************)
TextLabelSet ==
    {"text", "title", "header", "footer", "reference", "paragraph_title", "algorithm"}

\* the marker notebooklm occurs in content in some mix of upper and lower case
HasWatermark(content) ==
    \E k \in 0..(Len(content) - 10) :
        \A j \in 1..10 :
            \E n \in 1..26 :
                /\ LowerLetters[n] = WatermarkMarker[j]
                /\ content[k + j] \in {LowerLetters[n], UpperLetters[n]}

\* the three conditions of the claim on a block
TextEligible(b) ==
    /\ b.block_label \in TextLabelSet
    /\ \E k \in 1..Len(b.block_content) : b.block_content[k] \notin {" ", "\t", "\n"}
    /\ b.block_label = "footer" => ~HasWatermark(b.block_content)

\* the text shapes of slide p made from block index i (0-based)
TextShapesFrom(p, i) ==
    {k \in 1..Len(slides[p].shapes) :
        slides[p].shapes[k].kind = "text" /\ slides[p].shapes[k].block = i}

\* C3: on every page whose text blocks have been processed, a block with a
\* bbox has a text shape (exactly one, carrying its content) iff its label is
\* one of the seven text labels, its content is not blank, and it is not a
\* footer containing notebooklm in any case; a block without bbox has none.
C3_TextShapeIff ==
    \A p \in 1..page_idx :
        LET blocks == data.layoutParsingResults[p].parsing_res_list IN
        \A i \in 1..Len(blocks) :
            /\ (blocks[i].block_bbox # <<>> /\ TextEligible(blocks[i]))
                 => /\ Cardinality(TextShapesFrom(p, i - 1)) = 1
                    /\ \A k \in TextShapesFrom(p, i - 1) :
                         slides[p].shapes[k].text = blocks[i].block_content
            /\ ~(blocks[i].block_bbox # <<>> /\ TextEligible(blocks[i]))
                 => TextShapesFrom(p, i - 1) = {}

\* C3 witness: a saved deck whose page holds a footer with the marker in
\* mixed case (no shape) next to a block that did get a text shape.
C3_Witness ==
    /\ pc = "saved"
    /\ Len(data.layoutParsingResults[1].parsing_res_list) = 2
    /\ LET blocks == data.layoutParsingResults[1].parsing_res_list IN
       /\ blocks[1].block_label = "footer"
       /\ blocks[1].block_content = ContentMarkerMixed
       /\ blocks[2].block_label = "reference"
       /\ TextShapesFrom(1, 0) = {}
       /\ TextShapesFrom(1, 1) # {}

\* page p (1-based) has no raster: no file name for it, or the file is gone
RasterMissing(p) == p > Len(png_files) \/ ~png_files[p]

\* C4 as stated: a page whose raster is missing still gets a slide with all
\* its text shapes, no extracted asset and no background, and the run does
\* not end on that page.
C4_AsStated ==
    \A p \in 1..Len(slides) :
        RasterMissing(p) =>
            LET blocks == data.layoutParsingResults[p].parsing_res_list IN
            /\ slides[p].crops = <<>>
            /\ slides[p].background = <<>>
            /\ \A i \in 1..Len(blocks) :
                 (blocks[i].block_bbox # <<>> /\ TextEligible(blocks[i]))
                    => TextShapesFrom(p, i - 1) # {}
            /\ ~(pc = "failed" /\ Len(slides) = p)

\* C5 as stated: a document whose layout record and OCR record differ in the
\* number of pages does not end its page loop with an exception.
C5_AsStated ==
    (Len(data.layoutParsingResults) # Len(data.ocrResults) /\ Len(slides) > 0)
        => pc # "failed"

\* the size resize_data is given: the first page after aspect conformance
ConformedSize == <<NearestWide(InH), InH>>

\* canvasWidth/documentWidth and canvasHeight/documentHeight differ by 0.01
\* or more
ScalesDiffer ==
    /\ ppt_dims # <<>>
    /\ 100 * Abs(ppt_dims[1][1] * ppt_dims[2][2] * ConformedSize[2]
                 - ppt_dims[2][1] * ppt_dims[1][2] * ConformedSize[1])
         >= ppt_dims[1][2] * ppt_dims[2][2] * ConformedSize[1] * ConformedSize[2]

\* C6: when the two scales differ by 0.01 or more, the run never gets past
\* resize_data: it ends with the assertion error, with no coordinate of the
\* record rewritten, no slide made and no deck saved.
C6_AbortOnMismatch ==
    ScalesDiffer =>
        \/ pc = "setup"
        \/ /\ pc = "failed"
           /\ error = "AssertionError"
           /\ data = make_data_wide_screen(json_data)
           /\ slides = <<>>
           /\ ~final_ppt

\* C6 witness: a run has ended in the assertion error.
C6_Witness == pc = "failed" /\ error = "AssertionError" /\ ScalesDiffer

\* C7 as stated: after aspect conformance the canvas always matches the
\* document, so the assertion of resize_data never fails.
C7_AsStated == error # "AssertionError"

(***************************************************************************)
(* SpecRound: a narrow document is padded by make_data_wide_screen and the *)
(* result is put through the crop branch with the original width as the    *)
(* target, so that left is the pad offset.                                 *)
(***************************************************************************)
RoundSizes == {<<12, 9>>, <<13, 9>>, <<15, 9>>}

\* x-extents inside the page (the two zero-width ones on its edges
\* included), over its right edge and left of it
RoundXPairs(w) == WideXPairs(w) \cup {<<0, 0>>, <<w, w>>, <<w - 1, w + 2>>, <<-3, -1>>}

RoundItems(w) ==
    [page : {1, 2}, kind : {"block"},
     box : {<<x[1], 1, x[2], 4>> : x \in RoundXPairs(w)} \cup {<<>>}]
    \cup [page : {1, 2}, kind : {"line"},
          box : WideOcrBoxes(w) \cup {<<0, 2, 0, 3>>, <<w, 5, w, 6>>}]

InitRound ==
    \E size1 \in RoundSizes :
      \E its \in SeqsUpTo(RoundItems(size1[1]), MaxItems) :
        /\ json_data = WideDocument(size1, its)
        /\ data = json_data
        /\ pc = "start"
        /\ png_files = <<>>
        /\ ppt_dims = <<>>
        /\ page_idx = 0
        /\ slides = <<>>
        /\ final_ppt = FALSE
        /\ error = ""
        /\ bg = NoFrame

\* data = make_data_wide_screen(data): the pad branch, lines 585-614
RoundPad ==
    /\ pc = "start"
    /\ data' = make_data_wide_screen(data)
    /\ pc' = "padded"
    /\ UNCHANGED <<json_data, png_files, ppt_dims, page_idx, slides, final_ppt, error, bg>>

\* the crop branch (lines 616-666) from the padded width back to the
\* original one: left = (padded - original) // 2
RoundCrop ==
    /\ pc = "padded"
    /\ get_pdf_size_from_data(data)[1] > get_pdf_size_from_data(json_data)[1]
    /\ data' = CropData(data, get_pdf_size_from_data(data)[1],
                        get_pdf_size_from_data(json_data)[1])
    /\ pc' = "cropped"
    /\ UNCHANGED <<json_data, png_files, ppt_dims, page_idx, slides, final_ppt, error, bg>>

NextRound == RoundPad \/ RoundCrop

SpecRound == InitRound /\ [][NextRound]_vars

(***************************************************************************)
(* Properties of padding followed by cropping (SpecRound).                 *)
(***************************************************************************)
\* the box has four fields and lies inside the original page
InsideOriginal(box) ==
    /\ Len(box) = 4
    /\ 0 <= box[1]
    /\ box[1] <= box[3]
    /\ box[3] <= json_data.layoutParsingResults[1].width

\* a zero-width box on the left or the right edge of the original page
OnPageEdge(box) ==
    box[1] = box[3] /\ box[1] \in {0, json_data.layoutParsingResults[1].width}

\* the entries of old for which Must holds come back in new, unchanged and
\* in their order
ComesBack(old, new, Must(_)) ==
    LET kept == SelectSeq(old, Must) IN
    \E g \in [1..Len(kept) -> 1..Len(new)] :
        /\ \A j, k \in 1..Len(kept) : j < k => g[j] < g[k]
        /\ \A k \in 1..Len(kept) : new[g[k]] = kept[k]

RoundTrip(MustBox(_)) ==
    pc = "cropped" =>
        /\ \A p \in 1..Len(json_data.layoutParsingResults) :
              LET MustBlock(b) == b.block_bbox # <<>> /\ MustBox(b.block_bbox) IN
              ComesBack(json_data.layoutParsingResults[p].parsing_res_list,
                        data.layoutParsingResults[p].parsing_res_list, MustBlock)
        /\ \A p \in 1..Len(json_data.ocrResults) :
              ComesBack(json_data.ocrResults[p].rec_boxes,
                        data.ocrResults[p].rec_boxes, MustBox)

StaysInside(box) == InsideOriginal(box) /\ ~OnPageEdge(box)

\* C11 as stated: after padding by d and cropping with left = d to the
\* original width, every block bbox and OCR line that lay inside the
\* original page is back with its original x and y coordinates.
C11_AsStated == RoundTrip(InsideOriginal)

\* C11 (amended): as stated, for the boxes inside the original page other
\* than a zero-width box on the page's left or right edge, which the crop
\* drops.
C11_PadCropInverse == RoundTrip(StaysInside)

\* C11 witness: a page padded by a positive offset and cropped back, with a
\* block that came back and a zero-width block on the edge that did not.
C11_Witness ==
    /\ pc = "cropped"
    /\ Round16by9(json_data.layoutParsingResults[1].height)
         > json_data.layoutParsingResults[1].width + 1
    /\ Len(json_data.layoutParsingResults[1].parsing_res_list) = 2
    /\ Len(data.layoutParsingResults[1].parsing_res_list) = 1
    /\ \E i \in 1..2 :
          LET b == json_data.layoutParsingResults[1].parsing_res_list[i] IN
          /\ b.block_bbox # <<>>
          /\ StaysInside(b.block_bbox)
          /\ b.block_bbox[1] > 0
          /\ data.layoutParsingResults[1].parsing_res_list[1] = b
    /\ \E i \in 1..2 :
          LET b == json_data.layoutParsingResults[1].parsing_res_list[i] IN
          b.block_bbox # <<>> /\ OnPageEdge(b.block_bbox)

(***************************************************************************)
(* SpecCalls: the geometry and text-metric functions called on their own.  *)
(* bg is the frame of one call: the function's name, its arguments and,    *)
(* once it has returned, its result.                                       *)
(***************************************************************************)
CoordMax == 4     \* largest coordinate of a bbox handed to a function

Call(fn, args) == [phase |-> "call", fn |-> fn, args |-> args, result |-> <<>>]

ScaleFactors == {<<1, 1>>, <<1, 2>>, <<3, 2>>, <<2, 1>>, <<1, 3>>, <<720, 1778>>}

\* scale_bbox(bbox, s): boxes with coordinates of either sign
ScaleBboxCalls ==
    {Call("scale_bbox", [bbox |-> <<l, t, r, b>>, s |-> s, make_int |-> TRUE]) :
        l \in (-CoordMax)..CoordMax, r \in (-CoordMax)..CoordMax,
        t \in {-3, 0, 5}, b \in {-3, 0, 5}, s \in ScaleFactors}

\* expand_bbox(bbox, expand_px, size): boxes inside, across and outside the
\* bounds
ExpandBboxCalls ==
    {Call("expand_bbox", [bbox |-> <<x1, y[1], x2, y[2]>>, expand_px |-> m,
                          size |-> <<CoordMax, 3>>]) :
        x1 \in (-CoordMax)..(2 * CoordMax), x2 \in (-CoordMax)..(2 * CoordMax),
        y \in {<<0, 2>>, <<1, 3>>, <<6, 7>>, <<-5, -3>>}, m \in 0..2}

\* lines 336-352 called with make_int
ScaleBboxCall ==
    /\ bg.phase = "call"
    /\ bg.fn = "scale_bbox"
    /\ bg' = [bg EXCEPT !.phase = "returned",
                        !.result = scale_bbox(bg.args.bbox, bg.args.s, bg.args.make_int)]
    /\ UNCHANGED pageFrameVars

\* lines 314-333
ExpandBboxCall ==
    /\ bg.phase = "call"
    /\ bg.fn = "expand_bbox"
    /\ bg' = [bg EXCEPT !.phase = "returned",
                        !.result = expand_bbox(bg.args.bbox, bg.args.expand_px, bg.args.size)]
    /\ UNCHANGED pageFrameVars

Returned(fn) == bg.phase = "returned" /\ bg.fn = fn

\* C12 as stated: for every bbox and positive factor s, scale_bbox with
\* make_int returns integers l' <= l*s, t' <= t*s, r' >= r*s, b' >= b*s.
C12_AsStated ==
    Returned("scale_bbox") =>
        LET s == bg.args.s
            bbox == bg.args.bbox
            out == bg.result
        IN  /\ out[1] * s[2] <= bbox[1] * s[1]
            /\ out[2] * s[2] <= bbox[2] * s[1]
            /\ out[3] * s[2] >= bbox[3] * s[1]
            /\ out[4] * s[2] >= bbox[4] * s[1]

\* C13 as stated: for every bbox, margin >= 0 and bounds, the result of
\* expand_bbox has x1 and x2 in [0, width] and y1 and y2 in [0, height].
C13_AsStated ==
    Returned("expand_bbox") =>
        LET out == bg.result
            size == bg.args.size
        IN  /\ 0 <= out[1] /\ out[1] <= size[1]
            /\ 0 <= out[3] /\ out[3] <= size[1]
            /\ 0 <= out[2] /\ out[2] <= size[2]
            /\ 0 <= out[4] /\ out[4] <= size[2]

MaxLines == 3     \* OCR lines stacked in one block
GapMax == 4       \* largest distance between the tops of consecutive lines

LineHeights == {3, 5}

\* a block that holds the centre of every stacked line
StackBlock == <<0, 0, 6, MaxLines * GapMax + 6>>

\* n lines of height h, the first at the top of the block, each gaps[k]
\* below the one before; x is their x-extent
StackedLines(n, h, gaps, x) ==
    LET top[k \in 1..n] == IF k = 1 THEN 0 ELSE top[k - 1] + gaps[k - 1]
    IN  [k \in 1..n |-> <<x[1], top[k], x[2], top[k] + h>>]

\* orders of a list of n lines: as stacked, reversed, and with the first
\* line moved to the end
Orders(n) ==
    {[k \in 1..n |-> k], [k \in 1..n |-> n + 1 - k], [k \in 1..n |-> (k % n) + 1]}

\* get_line_count(block_bbox, ocr_boxes): the stacked lines in three orders,
\* narrow or reaching over the block's right edge, alone or followed by a
\* line below the block
GetLineCountCalls ==
    {LET lines == StackedLines(c.n, c.h, c.gaps, c.x) IN
     Call("get_line_count",
          [block_bbox |-> StackBlock,
           ocr_boxes |-> [k \in 1..c.n |-> lines[c.f[k]]] \o c.rest]) :
        c \in UNION {[n : {n}, h : LineHeights, gaps : [1..(n - 1) -> 0..GapMax],
                      f : Orders(n), x : {<<1, 5>>, <<1, 9>>},
                      rest : {<<>>, <<<<1, StackBlock[4] + 1, 5, StackBlock[4] + 4>>>>}] :
                        n \in 1..MaxLines}}

\* OCR lines of different heights: two with the same vertical centroid (5),
\* one three below them, one further down
MixedLinePool == {<<1, 4, 5, 6>>, <<1, 0, 5, 10>>, <<1, 7, 5, 9>>, <<1, 12, 5, 14>>}

\* get_line_count(block_bbox, ocr_boxes): lists of the mixed lines in every
\* order, repetitions included
MixedLineCalls ==
    {Call("get_line_count", [block_bbox |-> StackBlock, ocr_boxes |-> boxes]) :
        boxes \in SeqsUpTo(MixedLinePool, MaxLines) \ {<<>>}}

\* lines 49-92
GetLineCountCall ==
    /\ bg.phase = "call"
    /\ bg.fn = "get_line_count"
    /\ bg' = [bg EXCEPT !.phase = "returned",
                        !.result = get_line_count(bg.args.block_bbox, bg.args.ocr_boxes)]
    /\ UNCHANGED pageFrameVars

\* the OCR lines of the call whose centroid lies in the block
LinesInBlock ==
    LET b == bg.args.block_bbox IN
    {k \in 1..Len(bg.args.ocr_boxes) :
        LET o == bg.args.ocr_boxes[k] IN
        /\ 2 * b[1] <= o[1] + o[3] /\ o[1] + o[3] <= 2 * b[3]
        /\ 2 * b[2] <= o[2] + o[4] /\ o[2] + o[4] <= 2 * b[4]}

\* twice the y-coordinate of the centroid of line k
Centroid2(k) == bg.args.ocr_boxes[k][2] + bg.args.ocr_boxes[k][4]

\* the lines in the block all have height h
EqualHeight(h) ==
    \A k \in LinesInBlock : bg.args.ocr_boxes[k][4] - bg.args.ocr_boxes[k][2] = h

\* C14: when the block holds the centroids of N >= 1 lines of equal height
\* H and consecutive centroids (hence any two) are more than 0.6*H apart,
\* get_line_count returns N.
C14_StackedLines ==
    \A h \in LineHeights :
        (/\ Returned("get_line_count")
         /\ LinesInBlock # {}
         /\ EqualHeight(h)
         /\ \A j, k \in LinesInBlock :
               j # k => 5 * Abs(Centroid2(j) - Centroid2(k)) > 6 * h)
            => bg.result = Cardinality(LinesInBlock)

\* C14 witness: three lines more than 0.6*H apart, handed over out of
\* order, were counted as three.
C14_Witness ==
    /\ Returned("get_line_count")
    /\ Cardinality(LinesInBlock) = 3
    /\ \A j, k \in LinesInBlock :
          j # k => 5 * Abs(Centroid2(j) - Centroid2(k)) > 6 * 5
    /\ EqualHeight(5)
    /\ Centroid2(1) > Centroid2(2)
    /\ bg.result = 3

\* consecutive centroids are less than 0.6*h apart: every centroid but the
\* lowest one has another one below it, less than 0.6*h away (lines with
\* the same centroid are 0 apart)
ConsecutiveClose(h) ==
    \A j \in LinesInBlock :
        \/ \A k \in LinesInBlock : Centroid2(k) <= Centroid2(j)
        \/ \E k \in LinesInBlock :
              /\ Centroid2(k) > Centroid2(j)
              /\ 5 * (Centroid2(k) - Centroid2(j)) < 6 * h

\* C15 as stated: N >= 1 lines of equal height H whose consecutive
\* centroids are less than 0.6*H apart are counted as one line.
C15_AsStated ==
    \A h \in LineHeights :
        (/\ Returned("get_line_count")
         /\ LinesInBlock # {}
         /\ EqualHeight(h)
         /\ ConsecutiveClose(h))
            => bg.result = 1

\* C15 (amended): N >= 1 lines of equal height H are counted as one line
\* when every centroid is less than 0.6*H below the topmost one.
C15_CloseToFirst ==
    \A h \in LineHeights :
        (/\ Returned("get_line_count")
         /\ LinesInBlock # {}
         /\ EqualHeight(h)
         /\ \A j, k \in LinesInBlock : 5 * (Centroid2(k) - Centroid2(j)) < 6 * h)
            => bg.result = 1

\* C15 witness: three lines at three different heights, all less than
\* 0.6*H below the first, were counted as one.
C15_Witness ==
    /\ Returned("get_line_count")
    /\ Cardinality(LinesInBlock) = 3
    /\ EqualHeight(5)
    /\ \A j, k \in LinesInBlock :
          /\ 5 * (Centroid2(k) - Centroid2(j)) < 6 * 5
          /\ j # k => Centroid2(j) # Centroid2(k)
    /\ bg.result = 1

(***************************************************************************)
(* calculate_font_size as process_text_blocks calls it: the canvas height  *)
(* of the block and the line count of get_line_count.                      *)
(***************************************************************************)
HeightMax == 44

\* heights (by2 - by1) * scale: whole and half canvas units, and the
\* heights of inverted boxes
FontHeights ==
    {<<k, 1>> : k \in (-2)..HeightMax} \cup {<<2 * k + 1, 2>> : k \in (-1)..HeightMax}

CalculateFontSizeCalls ==
    {Call("calculate_font_size", [height |-> h, line_count |-> n]) :
        h \in FontHeights, n \in 0..MaxLines}

CalculateFontSizeCall ==
    /\ bg.phase = "call"
    /\ bg.fn = "calculate_font_size"
    /\ bg' = [bg EXCEPT !.phase = "returned",
                        !.result = calculate_font_size(bg.args.height,
                                                       bg.args.line_count > 1,
                                                       bg.args.line_count)]
    /\ UNCHANGED <<pc, json_data, data, png_files, ppt_dims, page_idx, slides,
                   final_ppt, error>>

\* the number of lines the height is divided by
FontLines == IF bg.args.line_count > 1 THEN bg.args.line_count ELSE 1

RatEqual(a, b) == a[1] * b[2] = b[1] * a[2]

\* 0.75 * h / n as a fraction
FontQuotient == <<3 * bg.args.height[1], 4 * bg.args.height[2] * FontLines>>

\* C16 as stated: the font size equals max(8, 0.75*h/n) for n > 1 and
\* max(8, 0.75*h) for n = 0 or 1.
C16_AsStated ==
    Returned("calculate_font_size")
        => RatEqual(Rat(bg.result), RatMax(Rat(MinFontSize), FontQuotient))

\* C16 (amended): the font size is the greater of 8 and the integer part
\* of 0.75*h/n (n > 1) or 0.75*h (n = 0 or 1); height 40 gives 30 for one
\* line and 15 for two; the result is never below 8.
C16_FontSize ==
    Returned("calculate_font_size")
        => /\ bg.result \in Int
           /\ bg.result >= MinFontSize
           /\ IF RatLess(FontQuotient, Rat(MinFontSize + 1))
              THEN bg.result = MinFontSize
              ELSE /\ ~RatLess(FontQuotient, Rat(bg.result))
                   /\ RatLess(FontQuotient, Rat(bg.result + 1))
           /\ bg.args.height = <<40, 1>> /\ bg.args.line_count \in {0, 1}
                 => bg.result = 30
           /\ bg.args.height = <<40, 1>> /\ bg.args.line_count = 2
                 => bg.result = 15

\* C16 witness: a height of 40 on two lines was given size 15.
C16_Witness ==
    /\ Returned("calculate_font_size")
    /\ bg.args.height = <<40, 1>>
    /\ bg.args.line_count = 2
    /\ bg.result = 15

CallFrames ==
    ScaleBboxCalls \cup ExpandBboxCalls \cup GetLineCountCalls
        \cup CalculateFontSizeCalls \cup MixedLineCalls

InitCalls ==
    /\ bg \in CallFrames
    /\ pc = "call"
    /\ json_data = <<>>
    /\ data = <<>>
    /\ png_files = <<>>
    /\ ppt_dims = <<>>
    /\ page_idx = 0
    /\ slides = <<>>
    /\ final_ppt = FALSE
    /\ error = ""

NextCalls ==
    \/ ScaleBboxCall
    \/ ExpandBboxCall
    \/ GetLineCountCall
    \/ CalculateFontSizeCall

SpecCalls == InitCalls /\ [][NextCalls]_vars

(***************************************************************************)
(* The end-to-end scenario.                                                *)
(***************************************************************************)
\* the run was given the 1000 x 1000 page with the title block first, and
\* its page has been processed
ScenarioProcessed ==
    /\ Len(json_data.layoutParsingResults) = 1
    /\ json_data.layoutParsingResults[1].width = 1000
    /\ json_data.layoutParsingResults[1].height = 1000
    /\ json_data.layoutParsingResults[1].parsing_res_list[1] = ScenarioTitle
    /\ page_idx = 1

\* C17 as stated: after full processing of the 1000 x 1000 page the title
\* block (100,50,900,150) has exactly one text shape, left-aligned, with
\* font size 75.
C17_AsStated ==
    ScenarioProcessed
        => /\ Cardinality(TextShapesFrom(1, 0)) = 1
           /\ \A k \in TextShapesFrom(1, 0) :
                 /\ slides[1].shapes[k].alignment = "Left"
                 /\ slides[1].shapes[k].font_size = 75

\* what the run does give the title block: one centred shape of size 30
ScenarioTitleShape ==
    ScenarioProcessed
        => /\ Cardinality(TextShapesFrom(1, 0)) = 1
           /\ \A k \in TextShapesFrom(1, 0) :
                 /\ slides[1].shapes[k].alignment = "Center"
                 /\ slides[1].shapes[k].font_size = 30
                 /\ slides[1].shapes[k].text = ContentHi

(***************************************************************************)
(* Extracted foreground elements.                                          *)
(***************************************************************************)
\* the pages whose raster was there when the page was processed
PagesWithRaster ==
    {p \in 1..page_idx : p <= Len(png_files) /\ png_files[p]}

\* the bbox grown by the margin 2 and clamped to the page
Grown(box, page_w, page_h) ==
    <<IF box[1] - 2 < 0 THEN 0 ELSE box[1] - 2,
      IF box[2] - 2 < 0 THEN 0 ELSE box[2] - 2,
      IF box[3] + 2 > page_w THEN page_w ELSE box[3] + 2,
      IF box[4] + 2 > page_h THEN page_h ELSE box[4] + 2>>

\* block b of a page is a foreground block with a non-empty grown rectangle
Extractable(b, page_w, page_h) ==
    /\ b.block_label \in {"image", "table", "chart"}
    /\ b.block_bbox # <<>>
    /\ Grown(b.block_bbox, page_w, page_h)[1] < Grown(b.block_bbox, page_w, page_h)[3]
    /\ Grown(b.block_bbox, page_w, page_h)[2] < Grown(b.block_bbox, page_w, page_h)[4]

\* the image shapes of slide p made from block index i (0-based)
ImageShapesFrom(p, i) ==
    {k \in 1..Len(slides[p].shapes) :
        slides[p].shapes[k].kind = "image" /\ slides[p].shapes[k].block = i}

\* every asset written for the document, as <<page, position>>
AllCrops == UNION {{<<p, k>> : k \in 1..Len(slides[p].crops)} : p \in 1..page_idx}

\* C18: on every page processed with its raster, a block labelled image,
\* table or chart whose grown and clamped rectangle is not empty has exactly
\* one asset and exactly one image shape, which refers to that asset and
\* lies at the grown rectangle (the canvas scale being 1); every other block
\* has neither, whatever blocks come before it; no two assets of the
\* document have the same name.
C18_OneAssetOneShape ==
    /\ \A p \in PagesWithRaster :
          LET blocks == data.layoutParsingResults[p].parsing_res_list
              page_w == data.dataInfo.width
              page_h == data.dataInfo.height
          IN  /\ \A i \in 1..Len(blocks) :
                    IF Extractable(blocks[i], page_w, page_h)
                    THEN /\ Cardinality(ImageShapesFrom(p, i - 1)) = 1
                         /\ \A k \in ImageShapesFrom(p, i - 1) :
                               /\ Cardinality({c \in 1..Len(slides[p].crops) :
                                      slides[p].crops[c] = slides[p].shapes[k].path}) = 1
                               /\ \A c \in 1..4 :
                                     RatEqual(slides[p].shapes[k].rect[c],
                                              Rat(Grown(blocks[i].block_bbox, page_w, page_h)[c]))
                    ELSE ImageShapesFrom(p, i - 1) = {}
              /\ Len(slides[p].crops)
                    = Cardinality({i \in 1..Len(blocks) : Extractable(blocks[i], page_w, page_h)})
    /\ \A pk, qm \in AllCrops :
          pk # qm => slides[pk[1]].crops[pk[2]] # slides[qm[1]].crops[qm[2]]

\* C18 witness: a saved deck whose first page holds an inverted block, which
\* has neither asset nor shape, followed by a block of the same label that
\* has both, while the second page has an asset of that label and index too.
C18_Witness ==
    /\ pc = "saved"
    /\ Len(slides) = 2
    /\ Len(data.layoutParsingResults[1].parsing_res_list) = 2
    /\ LET blocks == data.layoutParsingResults[1].parsing_res_list IN
       /\ blocks[1].block_label = "image"
       /\ blocks[1].block_bbox # <<>>
       /\ blocks[1].block_bbox[3] < blocks[1].block_bbox[1]
       /\ blocks[2].block_label = "table"
       /\ blocks[2].block_bbox = <<0, 0, 720, 405>>
    /\ ImageShapesFrom(1, 0) = {}
    /\ ImageShapesFrom(1, 1) # {}
    /\ Len(slides[1].crops) = 1
    /\ Len(slides[2].crops) = 2

(***************************************************************************)
(* Stacking order.  A slide's shapes are listed from the bottom up.        *)
(***************************************************************************)
\* C19: in the slide of every processed page every image shape is below
\* every text shape, whatever the order of the blocks in the layout list.
C19_ImagesBelowText ==
    \A p \in 1..page_idx :
        \A j, k \in 1..Len(slides[p].shapes) :
            (slides[p].shapes[j].kind = "image" /\ slides[p].shapes[k].kind = "text")
                => j < k

\* C19 witness: a saved deck whose first page lists a text block, an image,
\* another text block and a chart; the slide has the two pictures below the
\* two texts.
C19_Witness ==
    /\ pc = "saved"
    /\ json_data.layoutParsingResults[1].parsing_res_list = InterleavedBlocks
    /\ Len(slides[1].shapes) = 4
    /\ slides[1].shapes[1].kind = "image"
    /\ slides[1].shapes[2].kind = "image"
    /\ slides[1].shapes[3].kind = "text"
    /\ slides[1].shapes[3].block = 0
    /\ slides[1].shapes[4].kind = "text"

(***************************************************************************)
(* A raster file of twice the layout-space resolution.                     *)
(***************************************************************************)
\* the scenario's page has been through the first loop
ScenarioExtracted ==
    /\ bg.phase \in {"erase", "done"}
    /\ bg.parsing_res_list = <<ScenarioImage>>
    /\ bg.png_size = Twice(bg.pdf_size)

\* C20 as stated: for the image block (10,10,50,50) on a page whose raster
\* file has twice the layout resolution, the image scale used is 2 and the
\* crop rectangle covers the pixel rectangle (16,16)-(104,104).
C20_AsStated ==
    ScenarioExtracted
        => /\ RatEqual(bg.img_scale, Rat(2))
           /\ Len(bg.crops) = 1
           /\ bg.crops[1].rect[1] <= 16
           /\ bg.crops[1].rect[2] <= 16
           /\ bg.crops[1].rect[3] >= 104
           /\ bg.crops[1].rect[4] >= 104

\* what the pass does use: the scale 1 and the rectangle (8,8)-(52,52) of
\* the raster resized to the page
ScenarioCropRect ==
    ScenarioExtracted
        => /\ RatEqual(bg.img_scale, Rat(1))
           /\ Len(bg.crops) = 1
           /\ bg.crops[1].rect = <<8, 8, 52, 52>>

(***************************************************************************)
(* SpecCopy: the two normalizer passes and the records of their callers.   *)
(* json_data is the record handed to make_data_wide_screen, data the       *)
(* record it returns, which is handed to resize_data; bg holds what        *)
(* resize_data returns.  Both functions write in place (item[...] = ...,   *)
(* bbox[0] += ..., pruned_result[...] = ...) into the record that          *)
(* copy.deepcopy returned.                                                 *)
(***************************************************************************)
\* Mutant of CallerRecordAfter: no copy is made (or a shallow one, whose
\* pages, blocks and boxes are the caller's), so the writes land in the
\* caller's record.
CallerRecordShared(arg, written) == written

\* lines 567 and 692, data = copy.deepcopy(data): the caller's record after
\* the function has written `written` into its own copy
CallerRecordAfter(arg, written) == arg

InitCopy ==
    \E size1 \in WideFirstSizes :
      \E its \in SeqsUpTo(WideItems(size1[1]), MaxItems) :
        /\ json_data = WideDocument(size1, its)
        /\ data = <<>>
        /\ pc = "start"
        /\ png_files = <<>>
        /\ ppt_dims = <<>>
        /\ page_idx = 0
        /\ slides = <<>>
        /\ final_ppt = FALSE
        /\ error = ""
        /\ bg = NoFrame

\* make_data_wide_screen(json_data) returns
CopyWide ==
    /\ pc = "start"
    /\ data' = make_data_wide_screen(json_data)
    /\ json_data' = CallerRecordAfter(json_data, data')
    /\ ppt_dims' = setup_presentation(get_pdf_size_from_data(data'))
    /\ pc' = "wide"
    /\ UNCHANGED <<png_files, page_idx, slides, final_ppt, error, bg>>

\* resize_data(data, pdf_size, ppt_size) returns
CopyResize ==
    /\ pc = "wide"
    /\ ScalesAgree(get_pdf_size_from_data(data), ppt_dims)
    /\ ResizeUnpacks(data)
    /\ LET out == resize_data(data, get_pdf_size_from_data(data), ppt_dims) IN
       /\ bg' = [phase |-> "returned", fn |-> "resize_data", args |-> <<>>, result |-> out]
       /\ data' = CallerRecordAfter(data, out)
    /\ pc' = "resized"
    /\ UNCHANGED <<json_data, png_files, ppt_dims, page_idx, slides, final_ppt, error>>

\* resize_data raises ValueError at line 720, after update_data_size (line
\* 695) has written the canvas size
CopyResizeRaises ==
    /\ pc = "wide"
    /\ ScalesAgree(get_pdf_size_from_data(data), ppt_dims)
    /\ ~ResizeUnpacks(data)
    /\ data' = CallerRecordAfter(data,
                  update_data_size(data, PyInt(ppt_dims[1][1], ppt_dims[1][2]),
                                   <<PyInt(ppt_dims[2][1], ppt_dims[2][2])>>))
    /\ error' = "ValueError"
    /\ pc' = "failed"
    /\ UNCHANGED <<json_data, png_files, ppt_dims, page_idx, slides, final_ppt, bg>>

NextCopy == CopyWide \/ CopyResize \/ CopyResizeRaises

SpecCopy == InitCopy /\ [][NextCopy]_vars

Degenerate(box) == box[3] <= box[1] \/ box[4] <= box[2]

\* the blocks of processed page p whose bbox, as the passes get it, is
\* degenerate
DegenerateBlocks(p) ==
    {i \in 1..Len(data.layoutParsingResults[p].parsing_res_list) :
        LET b == data.layoutParsingResults[p].parsing_res_list[i] IN
        b.block_bbox # <<>> /\ Degenerate(b.block_bbox)}

\* C22 as stated: on every processed page a block whose bbox is degenerate
\* after the transforms (x2 <= x1 or y2 <= y1) has no text shape, no image
\* shape or asset, and no erased rectangle.
C22_AsStated ==
    \A p \in 1..page_idx :
        \A i \in DegenerateBlocks(p) :
            LET b == data.layoutParsingResults[p].parsing_res_list[i] IN
            /\ TextShapesFrom(p, i - 1) = {}
            /\ ImageShapesFrom(p, i - 1) = {}
            /\ \A k \in 1..Len(slides[p].erased) :
                  slides[p].erased[k]
                     # Grown(b.block_bbox, data.dataInfo.width, data.dataInfo.height)

\* the text pass alone: no text shape from a degenerate block
DegenerateNoText ==
    \A p \in 1..page_idx : \A i \in DegenerateBlocks(p) : TextShapesFrom(p, i - 1) = {}

\* the extraction pass alone: no image shape from a degenerate block
DegenerateNoImage ==
    \A p \in 1..page_idx : \A i \in DegenerateBlocks(p) : ImageShapesFrom(p, i - 1) = {}

\* the erasure pass alone: nothing erased on a page all of whose blocks are
\* degenerate
DegenerateNoErasure ==
    \A p \in 1..page_idx :
        DegenerateBlocks(p) = 1..Len(data.layoutParsingResults[p].parsing_res_list)
            => slides[p].erased = <<>>

(***************************************************************************)
(* OCR line boxes with extra trailing fields.                              *)
(***************************************************************************)
\* every OCR line box of the input has its four coordinates, and some have
\* more fields after them
ExtraOcrFields ==
    /\ \A p \in 1..Len(json_data.ocrResults) :
          \A i \in 1..Len(json_data.ocrResults[p].rec_boxes) :
              Len(json_data.ocrResults[p].rec_boxes[i]) >= 4
    /\ \E p \in 1..Len(json_data.ocrResults) :
          \E i \in 1..Len(json_data.ocrResults[p].rec_boxes) :
              Len(json_data.ocrResults[p].rec_boxes[i]) > 4

\* C23 as stated: a document whose OCR line boxes carry extra trailing
\* fields goes through aspect conformance, canvas scaling and line counting
\* without any stage raising on such a box.
C23_AsStated == ExtraOcrFields => error # "ValueError"

\* aspect conformance alone does take such a box as its first four fields:
\* after make_data_wide_screen the run has not failed and the extra fields
\* are still there
ExtraFieldsConformed ==
    (ExtraOcrFields /\ pc \in {"wide", "setup"})
        => /\ error = ""
           /\ \A p \in 1..Len(json_data.ocrResults) :
                 \A i \in 1..Len(json_data.ocrResults[p].rec_boxes) :
                    Len(data.ocrResults[p].rec_boxes[i])
                       = Len(json_data.ocrResults[p].rec_boxes[i])

(***************************************************************************)
(* Which blocks are erased from the background.                            *)
(***************************************************************************)
\* the seven text labels and the three foreground labels
ErasableLabelSet == TextLabelSet \cup {"image", "table", "chart"}

\* the blocks of page p that have a bbox, a label of the erasable set and
\* a grown rectangle that holds at least one pixel
ErasableBlocks(p) ==
    {i \in 1..Len(data.layoutParsingResults[p].parsing_res_list) :
        LET b == data.layoutParsingResults[p].parsing_res_list[i] IN
        /\ b.block_label \in ErasableLabelSet
        /\ b.block_bbox # <<>>
        /\ ~Degenerate(Grown(b.block_bbox, data.dataInfo.width, data.dataInfo.height))}

\* C24: on every page processed with its raster, the rectangles erased from
\* the background are, in list order, the grown rectangles of the blocks
\* that have a bbox and a label of the erasable set, whether or not the
\* block has a text shape; no other block adds an erasure.
C24_ErasedByLabel ==
    \A p \in PagesWithRaster :
        /\ Len(slides[p].erased) = Cardinality(ErasableBlocks(p))
        /\ \A i \in ErasableBlocks(p) :
              slides[p].erased[Cardinality({j \in ErasableBlocks(p) : j <= i})]
                 = Grown(data.layoutParsingResults[p].parsing_res_list[i].block_bbox,
                         data.dataInfo.width, data.dataInfo.height)

\* C24 witness: a saved deck whose page holds a footer with the watermark
\* marker and a text block with blank content: neither has a text shape,
\* both are erased.
C24_Witness ==
    /\ pc = "saved"
    /\ Len(data.layoutParsingResults[1].parsing_res_list) = 2
    /\ LET blocks == data.layoutParsingResults[1].parsing_res_list IN
       /\ blocks[1].block_label = "footer"
       /\ blocks[1].block_content = ContentMarkerInside
       /\ blocks[2].block_label = "text"
       /\ blocks[2].block_content = ContentBlank
    /\ slides[1].shapes = <<>>
    /\ Len(slides[1].erased) = 2
    /\ slides[1].erased[1] # slides[1].erased[2]

(***************************************************************************)
(* Boxes and the canvas after resize_data.                                 *)
(***************************************************************************)
\* box lies inside a page (or canvas) of width w and height h
InsidePage(box, w, h) ==
    /\ 0 <= box[1] /\ box[1] <= box[3] /\ box[3] <= w
    /\ 0 <= box[2] /\ box[2] <= box[4] /\ box[4] <= h

\* resize_data has returned, and no block or OCR line was dropped on the
\* way, so that the boxes of the input and of the result correspond by index
Resized ==
    /\ pc \in {"pages", "saved"}
    /\ \A p \in 1..Len(json_data.layoutParsingResults) :
          Len(data.layoutParsingResults[p].parsing_res_list)
             = Len(json_data.layoutParsingResults[p].parsing_res_list)
    /\ \A p \in 1..Len(json_data.ocrResults) :
          Len(data.ocrResults[p].rec_boxes) = Len(json_data.ocrResults[p].rec_boxes)

\* C25 as stated: after make_data_wide_screen and resize_data every block
\* bbox and every OCR line box that lay inside its page lies inside the
\* canvas.
C25_AsStated ==
    Resized
        => /\ \A p \in 1..Len(json_data.layoutParsingResults) :
                 LET page == json_data.layoutParsingResults[p] IN
                 \A i \in 1..Len(page.parsing_res_list) :
                    (/\ page.parsing_res_list[i].block_bbox # <<>>
                     /\ InsidePage(page.parsing_res_list[i].block_bbox,
                                   page.width, page.height))
                       => InsidePage(data.layoutParsingResults[p].parsing_res_list[i].block_bbox,
                                     data.dataInfo.width, data.dataInfo.height)
           /\ \A p \in 1..Min(Len(json_data.ocrResults), Len(json_data.layoutParsingResults)) :
                 LET page == json_data.layoutParsingResults[p] IN
                 \A i \in 1..Len(json_data.ocrResults[p].rec_boxes) :
                    InsidePage(json_data.ocrResults[p].rec_boxes[i], page.width, page.height)
                       => InsidePage(data.ocrResults[p].rec_boxes[i],
                                     data.dataInfo.width, data.dataInfo.height)

\* the x-extent alone does stay inside the canvas width
ResizedInsideWidth ==
    Resized
        => \A p \in 1..Len(json_data.layoutParsingResults) :
              LET page == json_data.layoutParsingResults[p] IN
              \A i \in 1..Len(page.parsing_res_list) :
                 (/\ page.parsing_res_list[i].block_bbox # <<>>
                  /\ InsidePage(page.parsing_res_list[i].block_bbox, page.width, page.height))
                    => LET box == data.layoutParsingResults[p].parsing_res_list[i].block_bbox
                       IN  0 <= box[1] /\ box[1] <= box[3] /\ box[3] <= data.dataInfo.width

(***************************************************************************)
(* The frame of the erasure pass.                                          *)
(***************************************************************************)
\* the pixels of the grown rectangle of a block of the page in bg, none if
\* the block has no bbox or no erasable label or the rectangle is empty or
\* inverted
ErasablePixels(b) ==
    IF b.block_label \in ErasableLabelSet /\ b.block_bbox # <<>>
    THEN LET g == Grown(b.block_bbox, bg.pdf_size[1], bg.pdf_size[2]) IN
         {px \in Pixels(bg.pdf_size) :
             g[1] <= px[1] /\ px[1] < g[3] /\ g[2] <= px[2] /\ px[2] < g[4]}
    ELSE {}

\* C26: a pass of the erasure loop changes no pixel outside the grown
\* rectangle of its block, and none at all when the block is rejected; so
\* at any time every pixel outside the rectangles of the blocks erased so
\* far has the colour of the loaded raster.
C26_ErasureFrame ==
    [][(bg.phase = "erase" /\ bg'.phase = "erase")
          => /\ \A px \in Pixels(bg.pdf_size) :
                   bg'.image_cv[px] # bg.image_cv[px]
                      => px \in ErasablePixels(bg.parsing_res_list[bg.i + 1])
             /\ \A px \in Pixels(bg.pdf_size) :
                   (\A k \in 1..bg'.i : px \notin ErasablePixels(bg.parsing_res_list[k]))
                      => bg'.image_cv[px] = bg.png[1][px]]_vars

\* C26 witness: the page has been saved after an erasure that changed a
\* pixel and a rejected one (an inverted rectangle); a pixel outside the
\* erased rectangle has its loaded colour, which differs from the fill.
C26_Witness ==
    /\ bg.phase = "done"
    /\ Len(bg.parsing_res_list) = 2
    /\ bg.parsing_res_list[1].block_label = "text"
    /\ bg.parsing_res_list[1].block_bbox # <<>>
    /\ bg.parsing_res_list[1].block_bbox[3] < bg.parsing_res_list[1].block_bbox[1]
    /\ ErasablePixels(bg.parsing_res_list[1]) = {}
    /\ \E px \in ErasablePixels(bg.parsing_res_list[2]) : bg.image_cv[px] # bg.png[1][px]
    /\ \E px \in Pixels(bg.pdf_size) \ ErasablePixels(bg.parsing_res_list[2]) :
          \E qx \in ErasablePixels(bg.parsing_res_list[2]) :
              bg.image_cv[px] # bg.image_cv[qx]

(***************************************************************************)
(* get_line_count and the order of the OCR lines.                          *)
(***************************************************************************)
\* the list of the call in the order f
Reordered(f) == [k \in 1..Len(bg.args.ocr_boxes) |-> bg.args.ocr_boxes[f[k]]]

\* C27 as stated: get_line_count returns the same count for every ordering
\* of the OCR lines of the call, lines of equal vertical centroid and
\* different heights included.
C27_AsStated ==
    Returned("get_line_count")
        => \A f \in Permutations(1..Len(bg.args.ocr_boxes)) :
              get_line_count(bg.args.block_bbox, Reordered(f)) = bg.result

\* the same for lists in which no two lines in the block share a centroid
OrderFreeWithoutTies ==
    (/\ Returned("get_line_count")
     /\ \A j, k \in LinesInBlock : j # k => Centroid2(j) # Centroid2(k))
        => \A f \in Permutations(1..Len(bg.args.ocr_boxes)) :
              get_line_count(bg.args.block_bbox, Reordered(f)) = bg.result

\* get_line_count sorts a list of its own (line 63): the caller's list is
\* the same after the call
CallerListKept ==
    [][bg.fn = "get_line_count" => bg'.args = bg.args]_vars

====
